---- MODULE Spec2Model ----
(***************************************************************************)
(* Model of the e-SUS APS update monitor (src/worker.js): the retrying     *)
(* scrapers, the change detector, the KV store, the /subscribe handler and *)
(* the scheduled update check.                                             *)
(*                                                                         *)
(* Strings are sequences of one-character strings, so that trim,           *)
(* toLowerCase, startsWith, length and the e-mail regular expression are   *)
(* computed as the code computes them.  JavaScript null/undefined is the   *)
(* value NULL for a string and NullObj for an object.                      *)
(***************************************************************************)
EXTENDS Naturals, Sequences, FiniteSets, TLC

\* ------------------------------------------------------------------ bounds
MaxRuns == 2
MaxReqs == 2
MaxKvFaults == 1
MaxFetchFaults == 3
MaxLen == 5
MaxSubs == 2
MaxRecords == 60
MaxErrors == 105
MaxMetrics == 12

\* ------------------------------------------------------------------ strings
NULL == <<"<null>">>
NullObj == [isNull |-> TRUE]

Truthy(s) == s # NULL /\ s # <<>>

IsSpace(c) == c \in {" ", "\n"}

SetMin(S) == CHOOSE m \in S : \A n \in S : m <= n
SetMax(S) == CHOOSE m \in S : \A n \in S : m >= n

Trim(s) ==
  LET keep == {i \in 1..Len(s) : ~IsSpace(s[i])}
  IN  IF keep = {} THEN <<>> ELSE SubSeq(s, SetMin(keep), SetMax(keep))

ToLowerChar(c) ==
  CASE c = "A" -> "a"
    [] c = "B" -> "b"
    [] c = "C" -> "c"
    [] c = "X" -> "x"
    [] OTHER -> c

ToLowerCase(s) == [i \in 1..Len(s) |-> ToLowerChar(s[i])]

StartsWith(s, p) == Len(s) >= Len(p) /\ SubSeq(s, 1, Len(p)) = p

\* ------------------------------------------------------------------ validation
\* The variant of the pattern without the dot: /^[^\s@]+@[^\s@]+$/
EmailRegexTestNoDot(s) ==
  \E i \in 1..Len(s) :
     /\ s[i] = "@"
     /\ 1 < i
     /\ i < Len(s)
     /\ \A k \in (1..Len(s)) \ {i} : ~IsSpace(s[k]) /\ s[k] # "@"

\* /^[^\s@]+@[^\s@]+\.[^\s@]+$/ : one '@' at i, a '.' at j inside the part
\* after it, non-empty runs around both, no whitespace and no other '@'.
EmailRegexTest(s) ==
  \E i \in 1..Len(s) : \E j \in 1..Len(s) :
     /\ s[i] = "@"
     /\ s[j] = "."
     /\ 1 < i
     /\ i + 1 < j
     /\ j < Len(s)
     /\ \A k \in (1..Len(s)) \ {i} : ~IsSpace(s[k]) /\ s[k] # "@"

NonString == <<"<object>">>

\* The variant without the pattern test: any non-empty string passes.
isValidEmailTruthyOnly(email) == Truthy(email) /\ email # NonString

isValidEmail(email) ==
  IF ~Truthy(email) \/ email = NonString
  THEN FALSE
  ELSE EmailRegexTest(Trim(email))

normalizeEmailNoTrim(email) == ToLowerCase(email)

normalizeEmail(email) == Trim(ToLowerCase(email))

\* ------------------------------------------------------------------ detector
hasNewBlogPostTitleOnly(current, stored) ==
  IF stored = NullObj \/ ~Truthy(stored.title) \/ ~Truthy(stored.link)
  THEN TRUE
  ELSE current.title # stored.title

hasNewBlogPostNoBootstrap(current, stored) ==
  IF stored = NullObj
  THEN FALSE
  ELSE current.title # stored.title \/ current.link # stored.link

hasNewBlogPostLinkTruthy(current, stored) ==
  IF stored = NullObj \/ ~Truthy(stored.title) \/ Truthy(stored.link)
  THEN TRUE
  ELSE current.title # stored.title \/ current.link # stored.link

hasNewBlogPost(current, stored) ==
  IF stored = NullObj \/ ~Truthy(stored.title) \/ ~Truthy(stored.link)
  THEN TRUE
  ELSE current.title # stored.title \/ current.link # stored.link

hasNewLediVersion(current, stored) ==
  IF stored = NullObj \/ ~Truthy(stored.version)
  THEN TRUE
  ELSE current.version # stored.version

\* ------------------------------------------------------------------ scrapers
maxRetries == 3
BackoffBaseMs == 1000
BackoffCapMs == 5000
ChangesLimit == 2000

RECURSIVE Pow2(_)
Pow2(n) == IF n = 0 THEN 1 ELSE 2 * Pow2(n - 1)

MinOf(a, b) == IF a < b THEN a ELSE b

\* Math.min(1000 * Math.pow(2, attempt - 1), 5000)
RetryDelayFlat(attempt) == MinOf(BackoffBaseMs, BackoffCapMs)

RetryDelay(attempt) == MinOf(BackoffBaseMs * Pow2(attempt - 1), BackoffCapMs)

ErrAbort == [message |-> "The operation was aborted"]
ErrNetwork == [message |-> "fetch failed"]
ErrHttp(status) == [message |-> "HTTP status", status |-> status]
ErrBlogTitle == [message |-> "Titulo do post nao encontrado ou invalido"]
ErrBlogLink == [message |-> "Link do post nao encontrado ou invalido"]
ErrLediVersion == [message |-> "Versao da LEDI nao encontrada ou invalida"]

ResponseOk(status) == status \in 200..299

\* 'https://sisaps.saude.gov.br'
BlogBase == <<"h","t","t","p","s",":","/","/","s","i","s","a","p","s",".",
              "s","a","u","d","e",".","g","o","v",".","b","r">>
Http == <<"h","t","t","p">>

\* What the first sidebar anchor of the fetched blog page carries: its title
\* and href attributes (<<>> when the attribute or the anchor is missing) and
\* the text of its span.
BlogPages ==
  { [title |-> <<"N","e","w","s">>, href |-> <<"/","p","1">>, span |-> <<>>],
    [title |-> <<"N","e","w","s">>, href |-> <<"h","t","t","p",":","/","/","x">>, span |-> <<>>],
    [title |-> <<" ","B","l","o","g"," ">>, href |-> <<"/","p","1">>, span |-> <<>>],
    [title |-> <<" ">>, href |-> <<"/","p","1">>, span |-> <<" ","B","l","o","g">>],
    [title |-> <<" ","v","2"," ">>, href |-> <<"/","p","2">>, span |-> <<>>],
    [title |-> <<>>, href |-> <<"/","p","1">>, span |-> <<"N","e","w","s">>],
    [title |-> <<>>, href |-> <<>>, span |-> <<>>] }

\* The HTMLRewriter handlers of getLatestBlogPost applied to a page.
BlogExtract(page, t, attempt) ==
  LET viaAttr == Truthy(page.title) /\ Truthy(page.href)
      title1 == IF viaAttr THEN Trim(page.title) ELSE NULL
      link1  == IF viaAttr
                THEN (IF StartsWith(page.href, Http) THEN page.href
                      ELSE BlogBase \o page.href)
                ELSE NULL
      title2 == IF ~Truthy(title1) /\ Truthy(page.span) /\ Truthy(Trim(page.span))
                THEN Trim(page.span) ELSE title1
  IN  [title |-> title2, link |-> link1, extractedAt |-> t, attempt |-> attempt]

BlogValidateNoLength(post) ==
  IF ~Truthy(post.title) THEN ErrBlogTitle
  ELSE IF ~Truthy(post.link) \/ ~StartsWith(post.link, Http) THEN ErrBlogLink
  ELSE NullObj

\* lines 341-347: NullObj when the post is accepted, else the error thrown
BlogValidate(post) ==
  IF ~Truthy(post.title) \/ Len(post.title) < 3 THEN ErrBlogTitle
  ELSE IF ~Truthy(post.link) \/ ~StartsWith(post.link, Http) THEN ErrBlogLink
  ELSE NullObj

\* Text of the first cell of the first table row of the LEDI page.
LediPages ==
  { <<"7",".","3">>, <<" ","7",".","4","\n">>, <<" ">>, <<>> }

LediExtract(cell, t, attempt) ==
  [version |-> IF Truthy(cell) /\ Truthy(Trim(cell)) THEN Trim(cell) ELSE NULL,
   changes |-> NULL, extractedAt |-> t, attempt |-> attempt]

LediValidate(v) ==
  IF ~Truthy(v.version) \/ Len(v.version) < 1 THEN ErrLediVersion ELSE NullObj

\* One attempt's fetch: the request is aborted by the 15 s timer, fails on the
\* network, or is answered with a status and a page.
FetchFailures == { [kind |-> "abort"], [kind |-> "network"] }
BlogFetchOutcomes ==
  FetchFailures \cup
  { [kind |-> "response", status |-> st, page |-> p] : st \in {200, 500}, p \in BlogPages }
LediFetchOutcomes ==
  FetchFailures \cup
  { [kind |-> "response", status |-> st, page |-> p] : st \in {200, 500}, p \in LediPages }

\* The body of one try block of getLatestBlogPost (lines 280-350):
\* [ok |-> TRUE, value |-> post] or [ok |-> FALSE, error |-> thrown].
BlogAttempt(o, t, attempt) ==
  IF o.kind = "abort" THEN [ok |-> FALSE, error |-> ErrAbort]
  ELSE IF o.kind = "network" THEN [ok |-> FALSE, error |-> ErrNetwork]
  ELSE IF ~ResponseOk(o.status) THEN [ok |-> FALSE, error |-> ErrHttp(o.status)]
  ELSE LET post == BlogExtract(o.page, t, attempt)
       IN  IF BlogValidate(post) # NullObj
           THEN [ok |-> FALSE, error |-> BlogValidate(post)]
           ELSE [ok |-> TRUE, value |-> post]

\* The body of the try block of getLatestLediVersion up to the validation
\* (lines 378-429).
LediAttempt(o, t, attempt) ==
  IF o.kind = "abort" THEN [ok |-> FALSE, error |-> ErrAbort]
  ELSE IF o.kind = "network" THEN [ok |-> FALSE, error |-> ErrNetwork]
  ELSE IF ~ResponseOk(o.status) THEN [ok |-> FALSE, error |-> ErrHttp(o.status)]
  ELSE LET v == LediExtract(o.page, t, attempt)
       IN  IF LediValidate(v) # NullObj
           THEN [ok |-> FALSE, error |-> LediValidate(v)]
           ELSE [ok |-> TRUE, value |-> v]

FinalError(what, lastError) ==
  [message |-> what, detail |-> lastError.message, originalError |-> lastError,
   attempts |-> maxRetries]

\* getLediChanges (lines 463-494): the page text cut to 2000 characters, or
\* the fallback text when the fetch fails or is not answered with success.
ChangesFallback == <<"N","/","D">>
ChangesPages == { <<"f","i","x">>, <<>> }
ChangesOutcomes ==
  { [kind |-> "network"] } \cup
  { [kind |-> "response", status |-> st, page |-> p] : st \in {200, 500}, p \in ChangesPages }

\* The changelog server accepts the request and never answers. The fetch of
\* getLediChanges (lines 465-469) is given no signal, so nothing ends it.
ChangesSilent == [kind |-> "silent"]

\* The variant that hands an empty text back when the fetch fails.
getLediChangesEmpty(o) ==
  IF o.kind = "network" THEN <<>>
  ELSE IF ~ResponseOk(o.status) THEN <<>>
  ELSE SubSeq(o.page, 1, MinOf(Len(o.page), ChangesLimit))
       \o (IF Len(o.page) > ChangesLimit THEN <<".",".",".">> ELSE <<>>)

getLediChanges(o) ==
  IF o.kind = "network" THEN ChangesFallback
  ELSE IF ~ResponseOk(o.status) THEN ChangesFallback
  ELSE SubSeq(o.page, 1, MinOf(Len(o.page), ChangesLimit))
       \o (IF Len(o.page) > ChangesLimit THEN <<".",".",".">> ELSE <<>>)

\* ------------------------------------------------------------------ state
VARIABLES
  kv,       \* the KV namespace: one JSON value per key, or Absent
  run,      \* the invocations of the scheduled handler and their locals
  req,      \* the POST /subscribe requests and their locals
  outbox,   \* the e-mails handed to the mail API, in order
  now,      \* the clock read by new Date()
  faults,   \* how many KV operations have thrown so far
  misses,   \* how many scrape attempts have failed so far
  det       \* input and output of a function called on its own

vars == <<kv, run, req, outbox, now, faults, misses, det>>

RunIds == 1..MaxRuns
ReqIds == 1..MaxReqs

Absent == [absent |-> TRUE]
Json(v) == [json |-> v]

KV_KEYS == {"EMAILS", "LAST_BLOG_POST", "LAST_LEDI_VERSION", "SYSTEM_STATUS",
            "EXECUTION_METRICS", "ERROR_LOG"}

\* A KV operation is answered or throws.
KvResults == {"ok", "throws"}

\* The outcome res of one KV operation, counted against the bound on throws.
KvOp(res) ==
  /\ res = "throws" => faults < MaxKvFaults
  /\ faults' = IF res = "throws" THEN faults + 1 ELSE faults

\* A scrape attempt that ended ok or not, counted against the bound on failed
\* attempts.
FetchOp(ok) ==
  /\ ~ok => misses < MaxFetchFaults
  /\ misses' = IF ok THEN misses ELSE misses + 1

\* No handler is between two of its steps.
Quiet ==
  /\ \A r \in RunIds : run[r].pc \in {"idle", "done"}
  /\ \A q \in ReqIds : req[q].pc \in {"idle", "done"}

RunIdle ==
  [pc |-> "idle", startTime |-> 0, status |-> NullObj, hasUpdates |-> FALSE,
   notifications |-> <<>>, attempt |-> 0, lastError |-> NullObj, delays |-> <<>>,
   trace |-> <<>>, ret |-> NullObj, partial |-> NullObj, emailList |-> <<>>,
   idx |-> 0, nidx |-> 0, emailsSent |-> 0, metricsHistory |-> <<>>,
   blogOutcome |-> "none", lediOutcome |-> "none",
   thrown |-> NullObj, recovering |-> FALSE, recoveryError |-> NullObj,
   errorLogs |-> <<>>, notifierThrew |-> FALSE, steps |-> <<>>]

\* What is left of an invocation that returned to the scheduler: the calls it
\* made, in order, and the exception its catch was entered with, if any.
Finish(l) == [RunIdle EXCEPT !.pc = "done", !.steps = l.steps, !.thrown = l.thrown]

ReqIdle ==
  [pc |-> "idle", raw |-> NULL, norm |-> NULL, existing |-> <<>>,
   response |-> NullObj, pred |-> {}, wrote |-> FALSE, confirmations |-> 0,
   parsed |-> FALSE]

DetIdle == [kind |-> "none"]

InitStore ==
  /\ kv = [k \in KV_KEYS |-> Absent]
  /\ run = [r \in RunIds |-> RunIdle]
  /\ req = [q \in ReqIds |-> ReqIdle]
  /\ outbox = <<>>
  /\ now = 0
  /\ faults = 0
  /\ misses = 0

Init == InitStore /\ det = DetIdle

\* ------------------------------------------------------------------ KV access
Range(seq) == {seq[i] : i \in 1..Len(seq)}

\* new Set(array): insertion order, duplicates dropped
RECURSIVE SetOfArray(_)
SetOfArray(arr) ==
  IF arr = <<>> THEN <<>>
  ELSE LET front == SetOfArray(SubSeq(arr, 1, Len(arr) - 1))
           last  == arr[Len(arr)]
       IN  IF last \in Range(front) THEN front ELSE Append(front, last)

SetHas(set, e) == e \in Range(set)
SetAdd(set, e) == IF e \in Range(set) THEN set ELSE Append(set, e)

\* getStoredEmails: the empty Set when the key is missing or the read throws
getStoredEmails(res) ==
  IF res = "throws" THEN <<>>
  ELSE IF kv.EMAILS = Absent THEN <<>>
  ELSE SetOfArray(kv.EMAILS.json)

\* getStoredBlogPost / getStoredLediVersion: null when missing or on a throw
getStoredBlogPost(res) ==
  IF res = "throws" THEN NullObj
  ELSE IF kv.LAST_BLOG_POST = Absent THEN NullObj
  ELSE kv.LAST_BLOG_POST.json

getStoredLediVersion(res) ==
  IF res = "throws" THEN NullObj
  ELSE IF kv.LAST_LEDI_VERSION = Absent THEN NullObj
  ELSE kv.LAST_LEDI_VERSION.json

\* The variant of put that stores nothing.
KvPutDropped(key, value, res) == kv

\* env.ESUS_MONITOR_KV.put inside a try/catch that swallows the throw
KvPut(key, value, res) ==
  IF res = "ok" THEN [kv EXCEPT ![key] = Json(value)] ELSE kv

\* ------------------------------------------------------------------ /subscribe
Str_a_b_c == <<"a","@","b",".","c">>

EmailInputs ==
  { Str_a_b_c,
    <<" ","A","@","B",".","c"," ">>,
    <<"x","@","b",".","c">>,
    <<"a","@","b">>,
    <<"@","b",".","c">>,
    <<"a","@","b","@","c",".","d">>,
    <<"a"," ","@","b",".","c">>,
    <<"i","n","v","a","l","i","d">>,
    <<"t","e","s","t","@">>,
    <<"@","d","o","m","a","i","n",".","c","o","m">>,
    <<"t","e","s","t","@","d","o","m","a","i","n">>,
    <<>>, NULL, NonString }

Bodies == { [malformed |-> TRUE] } \cup { [email |-> e] : e \in EmailInputs }

RespInvalid == [status |-> 400, error |-> "E-mail invalido"]
RespAlready == [status |-> 200, message |-> "E-mail ja esta inscrito"]
RespSuccess == [status |-> 200, message |-> "Inscricao realizada com sucesso"]
RespFailure == [status |-> 500, error |-> "Erro ao processar inscricao"]

ReqsDone == {q \in ReqIds : req[q].pc = "done"}

\* lines 120-134: parse the body, validate and normalize
SubReceive(q, body) ==
  /\ req[q].pc = "idle"
  /\ (IF q = 1 THEN TRUE ELSE req[q - 1].pc # "idle")
  /\ req' = [req EXCEPT ![q] =
       IF body = [malformed |-> TRUE]
       THEN [@ EXCEPT !.pc = "done", !.response = RespFailure, !.pred = ReqsDone]
       ELSE IF ~isValidEmail(body.email)
       THEN [@ EXCEPT !.pc = "done", !.response = RespInvalid, !.pred = ReqsDone,
                      !.raw = body.email, !.parsed = TRUE]
       ELSE [@ EXCEPT !.pc = "sub_read", !.raw = body.email, !.parsed = TRUE,
                      !.norm = normalizeEmail(body.email), !.pred = ReqsDone]]
  /\ UNCHANGED <<kv, run, outbox, now, faults, misses, det>>

\* lines 137-149: read the set, answer if present, else add
SubRead(q, res) ==
  /\ KvOp(res)
  /\ req[q].pc = "sub_read"
  /\ LET existingEmails == getStoredEmails(res)
     IN  req' = [req EXCEPT ![q] =
           IF SetHas(existingEmails, req[q].norm)
           THEN [@ EXCEPT !.pc = "done", !.response = RespAlready]
           ELSE [@ EXCEPT !.pc = "sub_write",
                          !.existing = SetAdd(existingEmails, req[q].norm)]]
  /\ UNCHANGED <<kv, run, outbox, now, misses, det>>

\* The variant that also stamps the System Status with the new subscriber.
SubWriteStatus(q, res) ==
  /\ KvOp(res)
  /\ req[q].pc = "sub_write"
  /\ kv' = [KvPut("EMAILS", req[q].existing, res) EXCEPT
              !.SYSTEM_STATUS = Json(NullObj)]
  /\ req' = [req EXCEPT ![q] = [@ EXCEPT !.pc = "sub_confirm", !.wrote = (res = "ok"),
                                         !.existing = <<>>]]
  /\ UNCHANGED <<run, outbox, now, misses, det>>

\* line 150: storeEmails, whose result is not looked at
SubWrite(q, res) ==
  /\ KvOp(res)
  /\ req[q].pc = "sub_write"
  /\ kv' = KvPut("EMAILS", req[q].existing, res)
  /\ req' = [req EXCEPT ![q] = [@ EXCEPT !.pc = "sub_confirm", !.wrote = (res = "ok"),
                                         !.existing = <<>>]]
  /\ UNCHANGED <<run, outbox, now, misses, det>>

\* EmailService.sendEmail: accepted, answered with an error, or the fetch throws
SendResults == {"accepted", "rejected", "throws"}

\* lines 152-174: best-effort confirmation e-mail, then the success response
SubConfirm(q, sent) ==
  /\ req[q].pc = "sub_confirm"
  /\ outbox' = Append(outbox, [to |-> req[q].norm, type |-> "confirmation",
                               ok |-> (sent = "accepted")])
  /\ req' = [req EXCEPT ![q] = [@ EXCEPT !.pc = "done", !.response = RespSuccess,
                                         !.confirmations = @ + 1]]
  /\ UNCHANGED <<kv, run, now, faults, misses, det>>

\* ------------------------------------------------------------------ retry loop
\* The catch block and loop exit of a scraper (lines 352-369): after a failed
\* attempt either wait and go round again or throw the composite failure.
\* l holds the scraper's locals, err the error the attempt threw.
\* RetryStepFirstError is the variant that would keep the first error
\* instead of the last one; RetryStep is what the code does.
RetryStepFirstError(l, err, what) ==
  IF l.attempt < maxRetries
  THEN [l EXCEPT !.lastError = IF @ = NullObj THEN err ELSE @,
                 !.trace = Append(@, err),
                 !.delays = Append(@, RetryDelay(l.attempt)),
                 !.attempt = @ + 1]
  ELSE [l EXCEPT !.lastError = IF @ = NullObj THEN err ELSE @,
                 !.trace = Append(@, err),
                 !.ret = [ok |-> FALSE,
                          error |-> FinalError(what, IF l.lastError = NullObj
                                                     THEN err ELSE l.lastError)]]

RetryStep(l, err, what) ==
  IF l.attempt < maxRetries
  THEN [l EXCEPT !.lastError = err, !.trace = Append(@, err),
                 !.delays = Append(@, RetryDelay(l.attempt)),
                 !.attempt = @ + 1]
  ELSE [l EXCEPT !.lastError = err, !.trace = Append(@, err),
                 !.ret = [ok |-> FALSE, error |-> FinalError(what, err)]]

OkMark == [ok |-> TRUE]

\* The scraper returns from inside the loop (lines 350, 440).
RetryReturn(l, value) ==
  [l EXCEPT !.trace = Append(@, OkMark), !.ret = [ok |-> TRUE, value |-> value]]

\* A scraper is entered: attempt = 1, lastError = null
ScraperEnter(l) ==
  [l EXCEPT !.attempt = 1, !.lastError = NullObj, !.delays = <<>>, !.trace = <<>>,
            !.ret = NullObj, !.partial = NullObj]

\* ------------------------------------------------------------------ checkForUpdates
\* scheduled (line 73) entering checkForUpdates (lines 648-656)
StartRun(r) ==
  /\ run[r].pc = "idle"
  /\ (IF r = 1 THEN TRUE ELSE run[r - 1].pc # "idle")
  /\ now' = now + 1
  /\ run' = [run EXCEPT ![r] = ScraperEnter(
       [@ EXCEPT !.pc = "blog_fetch", !.startTime = now',
                 !.status = [lastCheck |-> now', blogStatus |-> "ok",
                             lediStatus |-> "ok", emailStatus |-> "ok"],
                 !.hasUpdates = FALSE, !.notifications = <<>>])]
  /\ UNCHANGED <<kv, req, outbox, faults, misses, det>>

\* one attempt of getLatestBlogPost
BlogFetch(r, o) ==
  /\ run[r].pc = "blog_fetch"
  /\ FetchOp(BlogAttempt(o, now, run[r].attempt).ok)
  /\ LET a == BlogAttempt(o, now, run[r].attempt)
         l == IF a.ok THEN RetryReturn(run[r], a.value)
              ELSE RetryStep(run[r], a.error, "Falha no scraping do blog")
     IN  run' = [run EXCEPT ![r] =
           [l EXCEPT !.pc = IF l.ret = NullObj THEN "blog_fetch" ELSE "blog_returned"]]
  /\ UNCHANGED <<kv, req, outbox, now, faults, det>>

\* where checkForUpdates goes on after the blog block (line 685)
AfterBlog == "ledi_fetch"

\* lines 666-678: store and notify when the detector says new, else go on
BlogBranchAlwaysStore(isNew) == "blog_store"

BlogBranch(isNew) == IF isNew THEN "blog_store" ELSE AfterBlog

\* the catch of the blog block (lines 680-683)
BlogCatchBoth(st) == [st EXCEPT !.blogStatus = "error", !.lediStatus = "error"]

BlogCatch(st) == [st EXCEPT !.blogStatus = "error"]

\* lines 664-666 and 680-683: read the stored post and compare, or catch
BlogCheck(r, res) ==
  /\ run[r].pc = "blog_returned"
  /\ ~run[r].ret.ok => res = "ok"
  /\ KvOp(res)
  /\ run' = [run EXCEPT ![r] =
       IF ~run[r].ret.ok
       THEN ScraperEnter([@ EXCEPT !.pc = AfterBlog, !.status = BlogCatch(@),
                                   !.blogOutcome = "failed"])
       ELSE LET isNew == hasNewBlogPost(run[r].ret.value, getStoredBlogPost(res))
                l == [@ EXCEPT !.pc = BlogBranch(isNew),
                               !.blogOutcome = IF isNew THEN "new" ELSE "same"]
            IN  IF l.pc = "blog_store" THEN l ELSE ScraperEnter(l)]
  /\ UNCHANGED <<kv, req, outbox, now, misses, det>>

\* lines 669-675: store the post and queue the notification
BlogStore(r, res) ==
  /\ KvOp(res)
  /\ run[r].pc = "blog_store"
  /\ kv' = KvPut("LAST_BLOG_POST", run[r].ret.value, res)
  /\ run' = [run EXCEPT ![r] = ScraperEnter(
       [@ EXCEPT !.pc = AfterBlog, !.hasUpdates = TRUE,
                 !.notifications = Append(@, [type |-> "blog", data |-> run[r].ret.value])])]
  /\ UNCHANGED <<req, outbox, now, misses, det>>

\* one attempt of getLatestLediVersion up to the validation
LediFetch(r, o) ==
  /\ run[r].pc = "ledi_fetch"
  /\ FetchOp(LediAttempt(o, now, run[r].attempt).ok)
  /\ LET a == LediAttempt(o, now, run[r].attempt)
         l == IF a.ok THEN [run[r] EXCEPT !.partial = a.value]
              ELSE RetryStep(run[r], a.error, "Falha no scraping da LEDI")
     IN  run' = [run EXCEPT ![r] =
           [l EXCEPT !.pc = IF a.ok THEN "ledi_changes"
                            ELSE IF l.ret = NullObj THEN "ledi_fetch"
                            ELSE "ledi_returned"]]
  /\ UNCHANGED <<kv, req, outbox, now, faults, det>>

\* lines 431-440: the changelog, then return; with no answer the await of
\* line 465 never settles
LediChanges(r, o) ==
  /\ run[r].pc = "ledi_changes"
  /\ run' = [run EXCEPT ![r] =
       IF o = ChangesSilent THEN [@ EXCEPT !.pc = "changes_pending"]
       ELSE [RetryReturn(@, [run[r].partial EXCEPT !.changes = getLediChanges(o)])
               EXCEPT !.pc = "ledi_returned", !.partial = NullObj]]
  /\ UNCHANGED <<kv, req, outbox, now, faults, misses, det>>

\* The variant that goes back to the blog after the LEDI block.
AfterLediBlogAgain(l) == "blog_fetch"

\* line 712
AfterLedi(l) ==
  IF l.hasUpdates /\ Len(l.notifications) > 0 THEN "notify_read" ELSE "status_store"

\* lines 692-704
LediBranch(isNew, l) == IF isNew THEN "ledi_store" ELSE AfterLedi(l)

LediCatch(st) == [st EXCEPT !.lediStatus = "error"]

\* lines 690-692 and 706-709
LediCheck(r, res) ==
  /\ run[r].pc = "ledi_returned"
  /\ ~run[r].ret.ok => res = "ok"
  /\ KvOp(res)
  /\ run' = [run EXCEPT ![r] =
       IF ~run[r].ret.ok
       THEN ScraperEnter([@ EXCEPT !.pc = AfterLedi(run[r]), !.status = LediCatch(@),
                                   !.lediOutcome = "failed"])
       ELSE LET isNew == hasNewLediVersion(run[r].ret.value, getStoredLediVersion(res))
                l == [@ EXCEPT !.pc = LediBranch(isNew, run[r]),
                               !.lediOutcome = IF isNew THEN "new" ELSE "same"]
            IN  IF l.pc = "ledi_store" THEN l ELSE ScraperEnter(l)]
  /\ UNCHANGED <<kv, req, outbox, now, misses, det>>

\* lines 695-701
LediStore(r, res) ==
  /\ KvOp(res)
  /\ run[r].pc = "ledi_store"
  /\ kv' = KvPut("LAST_LEDI_VERSION", run[r].ret.value, res)
  /\ run' = [run EXCEPT ![r] =
       LET l == [@ EXCEPT !.hasUpdates = TRUE,
                          !.notifications = Append(@, [type |-> "ledi", data |-> run[r].ret.value])]
       IN  ScraperEnter([l EXCEPT !.pc = AfterLedi(l)])]
  /\ UNCHANGED <<req, outbox, now, misses, det>>

\* ------------------------------------------------------------------ notifier
\* The variant that never consolidates: one e-mail per notification.
ConsolidatedNever(notifications) == FALSE

\* line 1092: several notifications of one run go out as one e-mail
Consolidated(notifications) == Len(notifications) > 1

\* the subject line chosen at lines 1092-1120
MailType(notifications, n) ==
  IF Consolidated(notifications) THEN "consolidated" ELSE notifications[n].type

\* The variant of sendEmail that reports every send as confirmed.
sendEmailAlwaysTrue(sent) == TRUE

\* EmailService.sendEmail: true only when the mail API answered ok; an error
\* answer and a throwing fetch both give false
sendEmail(sent) == sent = "accepted"

\* line 719: zero confirmed sends degrade the e-mail status
AfterSend(st, emailsSent) ==
  IF emailsSent = 0 THEN [st EXCEPT !.emailStatus = "warning"] ELSE st

\* The variant where a throwing read of the subscribers leaves
\* checkForUpdates for the catch of scheduled.
NotifyReadUncaught(r, res) ==
  /\ KvOp(res)
  /\ run[r].pc = "notify_read"
  /\ LET emailList == getStoredEmails(res)
     IN  run' = [run EXCEPT ![r] =
           IF res = "throws"
           THEN [@ EXCEPT !.pc = "metrics_read", !.thrown = ErrNetwork,
                          !.steps = Append(@, "threw")]
           ELSE IF Len(emailList) = 0
           THEN [@ EXCEPT !.pc = "status_store", !.emailsSent = 0,
                          !.status = AfterSend(@, 0)]
           ELSE [@ EXCEPT !.pc = "notify_send", !.emailList = emailList,
                          !.idx = 1, !.nidx = 1, !.emailsSent = 0]]
  /\ UNCHANGED <<kv, req, outbox, now, misses, det>>

\* lines 1080-1086: read the subscribers; return 0 when there are none
NotifyRead(r, res) ==
  /\ KvOp(res)
  /\ run[r].pc = "notify_read"
  /\ LET emailList == getStoredEmails(res)
     IN  run' = [run EXCEPT ![r] =
           IF Len(emailList) = 0
           THEN [@ EXCEPT !.pc = "status_store", !.emailsSent = 0,
                          !.status = AfterSend(@, 0)]
           ELSE [@ EXCEPT !.pc = "notify_send", !.emailList = emailList,
                          !.idx = 1, !.nidx = 1, !.emailsSent = 0]]
  /\ UNCHANGED <<kv, req, outbox, now, misses, det>>

\* The variant that takes the stored snapshots back when a send fails.
NotifySendRollback(r, sent) ==
  /\ run[r].pc = "notify_send"
  /\ LET l == run[r]
         count == l.emailsSent + (IF sendEmail(sent) THEN 1 ELSE 0)
         lastEmail == l.idx = Len(l.emailList)
         lastNote == Consolidated(l.notifications) \/ l.nidx = Len(l.notifications)
     IN  /\ outbox' = Append(outbox, [to |-> l.emailList[l.idx],
                                      type |-> MailType(l.notifications, l.nidx),
                                      ok |-> (sent = "accepted")])
         /\ run' = [run EXCEPT ![r] =
              IF lastEmail /\ lastNote
              THEN [@ EXCEPT !.pc = "status_store", !.emailsSent = count,
                             !.status = AfterSend(@, count),
                             !.emailList = <<>>, !.idx = 0, !.nidx = 0]
              ELSE IF lastEmail
              THEN [@ EXCEPT !.emailsSent = count, !.idx = 1, !.nidx = @ + 1]
              ELSE [@ EXCEPT !.emailsSent = count, !.idx = @ + 1]]
  /\ kv' = IF sendEmail(sent) THEN kv
           ELSE [kv EXCEPT !.LAST_BLOG_POST = Absent, !.LAST_LEDI_VERSION = Absent]
  /\ UNCHANGED <<req, now, faults, misses, det>>

\* one pass of the inner loops (lines 1097-1108, 1128-1141): one send
NotifySend(r, sent) ==
  /\ run[r].pc = "notify_send"
  /\ LET l == run[r]
         count == l.emailsSent + (IF sendEmail(sent) THEN 1 ELSE 0)
         lastEmail == l.idx = Len(l.emailList)
         lastNote == Consolidated(l.notifications) \/ l.nidx = Len(l.notifications)
     IN  /\ outbox' = Append(outbox, [to |-> l.emailList[l.idx],
                                      type |-> MailType(l.notifications, l.nidx),
                                      ok |-> (sent = "accepted")])
         /\ run' = [run EXCEPT ![r] =
              IF lastEmail /\ lastNote
              THEN [@ EXCEPT !.pc = "status_store", !.emailsSent = count,
                             !.status = AfterSend(@, count),
                             !.emailList = <<>>, !.idx = 0, !.nidx = 0]
              ELSE IF lastEmail
              THEN [@ EXCEPT !.emailsSent = count, !.idx = 1, !.nidx = @ + 1]
              ELSE [@ EXCEPT !.emailsSent = count, !.idx = @ + 1]]
  /\ UNCHANGED <<kv, req, now, faults, misses, det>>

\* The catch around the notifier (lines 722-725), for an exception that
\* leaves sendNotificationEmails.
NotifyThrows(r) ==
  /\ run[r].pc \in {"notify_read", "notify_send"}
  /\ run' = [run EXCEPT ![r] =
       [@ EXCEPT !.pc = "status_store", !.status = [@ EXCEPT !.emailStatus = "error"],
                 !.emailList = <<>>, !.idx = 0, !.nidx = 0, !.notifierThrew = TRUE]]
  /\ UNCHANGED <<kv, req, outbox, now, faults, misses, det>>

\* The variant where the second check of attemptRecovery also stores a metric.
AfterStatusToMetrics(l) == "metrics_read"

\* Where checkForUpdates returns to: scheduled, which stores the metric
\* (line 87), or attemptRecovery, which returns true when one source is ok
\* (lines 1951-1954) and else goes on to the error status (line 1965).
AfterStatus(l) ==
  IF ~l.recovering THEN "metrics_read"
  ELSE IF l.status.blogStatus = "ok" \/ l.status.lediStatus = "ok" THEN "done"
  ELSE "recovery_status"

\* The variant where storeSystemStatus has no catch: a throwing put ends the
\* handler there.
StatusStoreUncaught(r, res) ==
  /\ KvOp(res)
  /\ run[r].pc = "status_store"
  /\ kv' = KvPut("SYSTEM_STATUS", run[r].status, res)
  /\ run' = [run EXCEPT ![r] =
       IF res = "throws" THEN [@ EXCEPT !.pc = "thrown"]
       ELSE IF AfterStatus(@) = "done" THEN Finish([@ EXCEPT !.steps = Append(@, "recovered")])
       ELSE [@ EXCEPT !.pc = AfterStatus(run[r])]]
  /\ UNCHANGED <<req, outbox, now, misses, det>>

\* line 734: storeSystemStatus, then return to the caller
StatusStore(r, res) ==
  /\ KvOp(res)
  /\ run[r].pc = "status_store"
  /\ kv' = KvPut("SYSTEM_STATUS", run[r].status, res)
  /\ run' = [run EXCEPT ![r] =
       IF AfterStatus(@) = "done" THEN Finish([@ EXCEPT !.steps = Append(@, "recovered")])
       ELSE [@ EXCEPT !.pc = AfterStatus(run[r])]]
  /\ UNCHANGED <<req, outbox, now, misses, det>>

\* ------------------------------------------------------------------ metrics
MetricsCap == 50

\* The variant that keeps the first 50 entries instead of the last.
PushMetricKeepFirst(history, m) ==
  LET h == Append(history, m)
  IN  IF Len(h) > MetricsCap THEN SubSeq(h, 1, MetricsCap) ELSE h

\* lines 1863-1868: push, then keep the last 50
PushMetric(history, m) ==
  LET h == Append(history, m)
  IN  IF Len(h) > MetricsCap THEN SubSeq(h, Len(h) - MetricsCap + 1, Len(h)) ELSE h

ErrorStatus == [blogStatus |-> "error", lediStatus |-> "error", emailStatus |-> "error"]

\* the record scheduled builds: lines 87-93 when checkForUpdates returned,
\* lines 104-110 in the catch
RunMetric(l) ==
  IF l.thrown = NullObj
  THEN [timestamp |-> now, duration |-> now - l.startTime, success |-> TRUE,
        updates |-> Len(l.notifications), status |-> l.status]
  ELSE [timestamp |-> now, duration |-> now - l.startTime, success |-> FALSE,
        error |-> l.thrown.message, status |-> ErrorStatus]

\* The variant of the catch that goes into recovery whatever happened.
AfterMetricsAlwaysRecover(l) == [l EXCEPT !.pc = "recovery_log_read"]

\* After storeExecutionMetrics: the end of the try (line 93), or
\* attemptRecovery in the catch (line 113)
AfterMetrics(l) ==
  IF l.thrown = NullObj THEN Finish(l) ELSE [l EXCEPT !.pc = "recovery_log_read"]

\* storeExecutionMetrics, lines 1856-1868: read the history and push
MetricsRead(r, res) ==
  /\ KvOp(res)
  /\ run[r].pc = "metrics_read"
  /\ run' = [run EXCEPT ![r] =
       LET l == [@ EXCEPT !.steps = Append(@, "metric")]
       IN  IF res = "throws" THEN AfterMetrics(l)
           ELSE [l EXCEPT !.pc = "metrics_write",
                          !.metricsHistory =
                             PushMetric(IF kv.EXECUTION_METRICS = Absent THEN <<>>
                                        ELSE kv.EXECUTION_METRICS.json, RunMetric(run[r]))]]
  /\ UNCHANGED <<kv, req, outbox, now, misses, det>>

\* storeExecutionMetrics, line 1870: write the history back
MetricsWrite(r, res) ==
  /\ KvOp(res)
  /\ run[r].pc = "metrics_write"
  /\ kv' = KvPut("EXECUTION_METRICS", run[r].metricsHistory, res)
  /\ run' = [run EXCEPT ![r] = AfterMetrics([@ EXCEPT !.metricsHistory = <<>>])]
  /\ UNCHANGED <<req, outbox, now, misses, det>>

\* ------------------------------------------------------------------ error log
ErrorLogCap == 100

\* The variant that never evicts.
PushErrorNoCap(logs, e) == Append(logs, e)

\* lines 1911-1916: push, then keep the last 100
PushError(logs, e) ==
  LET h == Append(logs, e)
  IN  IF Len(h) > ErrorLogCap THEN SubSeq(h, Len(h) - ErrorLogCap + 1, Len(h)) ELSE h

\* ------------------------------------------------------------------ the catch of scheduled
\* String.prototype.includes
Includes(s, t) ==
  \E i \in 1..(Len(s) - Len(t) + 1) : SubSeq(s, i, i + Len(t) - 1) = t

\* The variant that takes every error for a network error.
NetworkClassAlways(message) == TRUE

\* line 1941: the errors attemptRecovery retries
NetworkClass(message) ==
  \/ Includes(message, <<"f","e","t","c","h">>)
  \/ Includes(message, <<"n","e","t","w","o","r","k">>)

\* Errors that escape checkForUpdates, by their message.
ThrownErrors ==
  { [message |-> <<"f","e","t","c","h"," ","f","a","i","l","e","d">>],
    [message |-> <<"n","e","t","w","o","r","k">>],
    [message |-> <<"K","V">>] }

\* The places of checkForUpdates (lines 647-741).
CheckPcs ==
  {"blog_fetch", "blog_returned", "blog_store", "ledi_fetch", "ledi_changes",
   "ledi_returned", "ledi_store", "notify_read", "notify_send", "status_store"}

\* What an exception leaves of the locals of checkForUpdates.
Unwind(l) ==
  [RunIdle EXCEPT !.startTime = l.startTime, !.steps = l.steps, !.thrown = l.thrown,
                  !.recovering = l.recovering]

\* An exception leaves checkForUpdates: to the catch of scheduled (line 95),
\* whose first call is storeExecutionMetrics, or, on the recovery run, to the
\* catch of attemptRecovery (line 1955), which logs it.
CheckThrows(r, err) ==
  /\ run[r].pc \in CheckPcs
  /\ run' = [run EXCEPT ![r] =
       IF ~run[r].recovering
       THEN [Unwind(@) EXCEPT !.pc = "metrics_read", !.thrown = err,
                              !.steps = Append(@, "threw")]
       ELSE [Unwind(@) EXCEPT !.pc = "recovery_log_read", !.recoveryError = err]]
  /\ UNCHANGED <<kv, req, outbox, now, faults, misses, det>>

\* the entry storeErrorLog builds (lines 1894-1900) for the error in hand
RecoveryEntry(l) ==
  IF l.recoveryError = NullObj
  THEN [timestamp |-> now, message |-> l.thrown.message,
        context |-> [type |-> "scheduled_execution"]]
  ELSE [timestamp |-> now, message |-> l.recoveryError.message,
        context |-> [type |-> "recovery_attempt", original_error |-> l.thrown.message]]

\* After storeErrorLog in attemptRecovery: the wait and the second check for
\* a network error (lines 1941-1949), else the error status (line 1965);
\* after the log of a failed second check, the error status.
AfterRecoveryLog(l) ==
  IF l.recoveryError = NullObj /\ NetworkClass(l.thrown.message)
  THEN "recovery_wait" ELSE "recovery_status"

\* attemptRecovery calling storeErrorLog (lines 1935, 1957): read the log and
\* push; a throw is swallowed by storeErrorLog
RecoveryLogRead(r, res) ==
  /\ KvOp(res)
  /\ run[r].pc = "recovery_log_read"
  /\ run' = [run EXCEPT ![r] =
       LET l == [@ EXCEPT !.steps = Append(@, IF run[r].recoveryError = NullObj
                                              THEN "recovery" ELSE "failed")]
       IN  IF res = "throws" THEN [l EXCEPT !.pc = AfterRecoveryLog(l)]
           ELSE [l EXCEPT !.pc = "recovery_log_write",
                          !.errorLogs = PushError(IF kv.ERROR_LOG = Absent THEN <<>>
                                                  ELSE kv.ERROR_LOG.json,
                                                  RecoveryEntry(run[r]))]]
  /\ UNCHANGED <<kv, req, outbox, now, misses, det>>

\* storeErrorLog, line 1918: write the log back
RecoveryLogWrite(r, res) ==
  /\ KvOp(res)
  /\ run[r].pc = "recovery_log_write"
  /\ kv' = KvPut("ERROR_LOG", run[r].errorLogs, res)
  /\ run' = [run EXCEPT ![r] =
       [@ EXCEPT !.pc = AfterRecoveryLog(run[r]), !.errorLogs = <<>>]]
  /\ UNCHANGED <<req, outbox, now, misses, det>>

\* lines 1945-1949: 30 s later checkForUpdates is entered a second time
RecoveryWait(r) ==
  /\ run[r].pc = "recovery_wait"
  /\ now' = now + 1
  /\ run' = [run EXCEPT ![r] = ScraperEnter(
       [@ EXCEPT !.pc = "blog_fetch", !.recovering = TRUE,
                 !.status = [lastCheck |-> now', blogStatus |-> "ok",
                             lediStatus |-> "ok", emailStatus |-> "ok"],
                 !.hasUpdates = FALSE, !.notifications = <<>>,
                 !.blogOutcome = "none", !.lediOutcome = "none",
                 !.emailsSent = 0, !.notifierThrew = FALSE,
                 !.steps = Append(@, "check")])]
  /\ UNCHANGED <<kv, req, outbox, faults, misses, det>>

\* The variant that stores the flags alone.
RecoveryStatusRecordPlain(l) ==
  [lastCheck |-> now, blogStatus |-> "error", lediStatus |-> "error",
   emailStatus |-> "error"]

\* the record of lines 1965-1972
RecoveryStatusRecord(l) ==
  [lastCheck |-> now, blogStatus |-> "error", lediStatus |-> "error",
   emailStatus |-> "error", lastError |-> l.thrown.message, recoveryAttempted |-> TRUE]

\* lines 1965-1974: storeSystemStatus with the error record, return false
RecoveryStatus(r, res) ==
  /\ KvOp(res)
  /\ run[r].pc = "recovery_status"
  /\ kv' = KvPut("SYSTEM_STATUS", RecoveryStatusRecord(run[r]), res)
  /\ run' = [run EXCEPT ![r] = Finish([@ EXCEPT !.steps = Append(@, "status")])]
  /\ UNCHANGED <<req, outbox, now, misses, det>>

\* ------------------------------------------------------------------ specification
\* The whole worker, one invocation at a time: scheduled runs and /subscribe
\* requests against one KV namespace, over a small choice of pages, request
\* bodies and mail outcomes.
SomeBlogOutcomes ==
  { [kind |-> "abort"],
    [kind |-> "response", status |-> 200,
     page |-> [title |-> <<"N","e","w","s">>, href |-> <<"/","p","1">>, span |-> <<>>]],
    [kind |-> "response", status |-> 200,
     page |-> [title |-> <<" ","B","l","o","g"," ">>, href |-> <<"/","p","1">>, span |-> <<>>]],
    [kind |-> "response", status |-> 200,
     page |-> [title |-> <<" ","v","2"," ">>, href |-> <<"/","p","2">>, span |-> <<>>]] }

SomeLediOutcomes ==
  { [kind |-> "network"],
    [kind |-> "response", status |-> 200, page |-> <<"7",".","3">>],
    [kind |-> "response", status |-> 200, page |-> <<" ","7",".","4","\n">>],
    [kind |-> "response", status |-> 200, page |-> <<>>] }

SomeChangesOutcomes ==
  { [kind |-> "response", status |-> 200, page |-> <<"f","i","x">>] }

SomeBodies == { [email |-> Str_a_b_c] }

SomeSendResults == {"accepted", "rejected"}

Serve ==
  \/ \E q \in ReqIds, body \in SomeBodies : Quiet /\ SubReceive(q, body)
  \/ \E q \in ReqIds, res \in KvResults : SubRead(q, res)
  \/ \E q \in ReqIds, res \in KvResults : SubWrite(q, res)
  \/ \E q \in ReqIds, sent \in {"accepted"} : SubConfirm(q, sent)

Scheduled ==
  \/ \E r \in RunIds : Quiet /\ StartRun(r)
  \/ \E r \in RunIds, o \in SomeBlogOutcomes : BlogFetch(r, o)
  \/ \E r \in RunIds, res \in KvResults : BlogCheck(r, res)
  \/ \E r \in RunIds, res \in KvResults : BlogStore(r, res)
  \/ \E r \in RunIds, o \in SomeLediOutcomes : LediFetch(r, o)
  \/ \E r \in RunIds, o \in SomeChangesOutcomes : LediChanges(r, o)
  \/ \E r \in RunIds, res \in KvResults : LediCheck(r, res)
  \/ \E r \in RunIds, res \in KvResults : LediStore(r, res)
  \/ \E r \in RunIds, res \in KvResults : NotifyRead(r, res)
  \/ \E r \in RunIds, sent \in SomeSendResults : NotifySend(r, sent)
  \/ \E r \in RunIds, res \in KvResults : StatusStore(r, res)
  \/ \E r \in RunIds, res \in KvResults : MetricsRead(r, res)
  \/ \E r \in RunIds, res \in KvResults : MetricsWrite(r, res)

Next == Serve \/ Scheduled

Spec == Init /\ [][Next]_vars

\* ------------------------------------------------------------------ the scrapers alone
\* One scheduled run up to the return of getLatestLediVersion, over every
\* fetch outcome.
NextScraper ==
  \/ \E r \in RunIds : Quiet /\ StartRun(r)
  \/ \E r \in RunIds, o \in BlogFetchOutcomes : BlogFetch(r, o)
  \/ \E r \in RunIds, res \in KvResults : BlogCheck(r, res)
  \/ \E r \in RunIds, res \in KvResults : BlogStore(r, res)
  \/ \E r \in RunIds, o \in LediFetchOutcomes : LediFetch(r, o)
  \/ \E r \in RunIds, o \in ChangesOutcomes \cup {ChangesSilent} : LediChanges(r, o)

SpecScraper == Init /\ [][NextScraper]_vars

\* ------------------------------------------------------------------ /subscribe alone
\* Requests over every body, which may overlap.
NextSubscribe ==
  \/ \E q \in ReqIds, body \in Bodies : SubReceive(q, body)
  \/ \E q \in ReqIds, res \in KvResults : SubRead(q, res)
  \/ \E q \in ReqIds, res \in KvResults : SubWrite(q, res)
  \/ \E q \in ReqIds, sent \in SendResults : SubConfirm(q, sent)

SpecSubscribe == Init /\ [][NextSubscribe]_vars

\* ------------------------------------------------------------------ the detector alone
Times == 1..MaxRuns
Attempts == 1..maxRetries

BlogSnapshots ==
  { BlogAttempt(o, t, a).value :
      o \in {x \in BlogFetchOutcomes : BlogAttempt(x, 1, 1).ok}, t \in Times, a \in Attempts }

LediSnapshots ==
  { [LediAttempt(o, t, a).value EXCEPT !.changes = getLediChanges(c)] :
      o \in {x \in LediFetchOutcomes : LediAttempt(x, 1, 1).ok},
      c \in ChangesOutcomes, t \in Times, a \in Attempts }

\* What JSON.parse of the stored value can give: null, a snapshot, or an
\* object whose defining fields are missing or empty.
StoredBlogValues ==
  {NullObj} \cup BlogSnapshots \cup
  [title : {s.title : s \in BlogSnapshots} \cup {NULL, <<>>},
   link : {s.link : s \in BlogSnapshots} \cup {NULL, <<>>},
   extractedAt : Times, attempt : {1}]

StoredLediValues ==
  {NullObj} \cup LediSnapshots \cup
  [version : {NULL, <<>>}, changes : {ChangesFallback}, extractedAt : Times, attempt : {1}]

DetInputs ==
  { [kind |-> "blog", current |-> c, stored |-> st, done |-> FALSE, result |-> FALSE] :
      c \in BlogSnapshots, st \in StoredBlogValues }
  \cup
  { [kind |-> "ledi", current |-> c, stored |-> st, done |-> FALSE, result |-> FALSE] :
      c \in LediSnapshots, st \in StoredLediValues }

InitDetector == InitStore /\ det \in DetInputs

DetectBlog ==
  /\ det.kind = "blog" /\ ~det.done
  /\ det' = [det EXCEPT !.done = TRUE, !.result = hasNewBlogPost(det.current, det.stored)]
  /\ UNCHANGED <<kv, run, req, outbox, now, faults, misses>>

DetectLedi ==
  /\ det.kind = "ledi" /\ ~det.done
  /\ det' = [det EXCEPT !.done = TRUE, !.result = hasNewLediVersion(det.current, det.stored)]
  /\ UNCHANGED <<kv, run, req, outbox, now, faults, misses>>

NextDetector == DetectBlog \/ DetectLedi

SpecDetector == InitDetector /\ [][NextDetector]_vars

\* ------------------------------------------------------------------ properties
\* the places of a run after both source blocks of checkForUpdates
PostSources == {"notify_read", "notify_send", "status_store", "metrics_read", "metrics_write"}

HasNote(l, type) == \E i \in 1..Len(l.notifications) : l.notifications[i].type = type

\* C1: a blog scrape that failed after all retries does not keep the LEDI
\* scrape from running in the same run: past the two source blocks both
\* scrapers have been called, and each status flag is 'error' exactly when its
\* own scraper failed.
C1_SourcesIndependent ==
  \A r \in RunIds :
    run[r].pc \in PostSources =>
      /\ run[r].blogOutcome # "none"
      /\ run[r].lediOutcome # "none"
      /\ (run[r].status.blogStatus = "error") = (run[r].blogOutcome = "failed")
      /\ (run[r].status.lediStatus = "error") = (run[r].lediOutcome = "failed")
      /\ run[r].status.blogStatus \in {"ok", "error"}
      /\ run[r].status.lediStatus \in {"ok", "error"}

C1_Witness ==
  \E r \in RunIds :
    /\ run[r].pc \in PostSources
    /\ run[r].blogOutcome = "failed"
    /\ run[r].lediOutcome \in {"new", "same"}
    /\ run[r].status.lediStatus = "ok"

BlogSnapshotValid(v) ==
  /\ Truthy(v.title) /\ Len(v.title) >= 3
  /\ Truthy(v.link) /\ SubSeq(v.link, 1, 4) = <<"h","t","t","p">>

LediSnapshotValid(v) == Truthy(v.version) /\ Len(v.version) >= 1

StoredSnapshotsValid ==
  /\ kv.LAST_BLOG_POST = Absent \/ BlogSnapshotValid(kv.LAST_BLOG_POST.json)
  /\ kv.LAST_LEDI_VERSION = Absent \/ LediSnapshotValid(kv.LAST_LEDI_VERSION.json)

SnapshotWrittenOnlyAfterSuccess ==
  /\ kv'.LAST_BLOG_POST # kv.LAST_BLOG_POST =>
       \E r \in RunIds :
         /\ run[r].pc = "blog_store" /\ run[r].ret.ok
         /\ run[r].trace[Len(run[r].trace)] = OkMark
         /\ BlogSnapshotValid(run[r].ret.value)
         /\ kv'.LAST_BLOG_POST = Json(run[r].ret.value)
  /\ kv'.LAST_LEDI_VERSION # kv.LAST_LEDI_VERSION =>
       \E r \in RunIds :
         /\ run[r].pc = "ledi_store" /\ run[r].ret.ok
         /\ run[r].trace[Len(run[r].trace)] = OkMark
         /\ LediSnapshotValid(run[r].ret.value)
         /\ kv'.LAST_LEDI_VERSION = Json(run[r].ret.value)

\* C2: the stored blog snapshot is absent or has a title of at least 3
\* characters and a link starting with 'http', the stored LEDI snapshot is
\* absent or has a non-empty version; a snapshot changes only in the store
\* step of a run whose scrape of that source returned a validated snapshot,
\* and becomes that snapshot.
C2_SnapshotsValidated ==
  /\ []StoredSnapshotsValid
  /\ [][SnapshotWrittenOnlyAfterSuccess]_vars

C2_Witness ==
  /\ kv.LAST_BLOG_POST # Absent
  /\ kv.LAST_LEDI_VERSION # Absent
  /\ \E r \in RunIds :
       /\ run[r].pc \in PostSources
       /\ run[r].blogOutcome = "failed"
       /\ kv.LAST_BLOG_POST.json.extractedAt < run[r].startTime

NoChangeMarked ==
  \A r \in RunIds :
    /\ run[r].blogOutcome = "same" =>
         /\ run[r].status.blogStatus = "ok"
         /\ ~HasNote(run[r], "blog")
         /\ run[r].pc # "blog_store"
    /\ run[r].lediOutcome = "same" =>
         /\ run[r].status.lediStatus = "ok"
         /\ ~HasNote(run[r], "ledi")
         /\ run[r].pc # "ledi_store"
    /\ (run[r].blogOutcome \in {"same", "failed"} /\ run[r].lediOutcome \in {"same", "failed"}) =>
         /\ run[r].pc \notin {"notify_read", "notify_send"}
         /\ run[r].notifications = <<>>

NoChangeWritesNothing ==
  \A r \in RunIds :
    /\ run'[r].blogOutcome = "same" => kv'.LAST_BLOG_POST = kv.LAST_BLOG_POST
    /\ run'[r].lediOutcome = "same" => kv'.LAST_LEDI_VERSION = kv.LAST_LEDI_VERSION
    /\ (run'[r].blogOutcome \in {"same", "failed"} /\ run'[r].lediOutcome \in {"same", "failed"}) =>
         \A i \in 1..Len(outbox') : i > Len(outbox) => outbox'[i].type = "confirmation"

\* C3: when a source was scraped and the detector reported no change, the run
\* marks the source 'ok', queues no notification for it and leaves its stored
\* snapshot as it is; a run in which no source changed sends no e-mail.
C3_NoChangeNoEffect ==
  /\ []NoChangeMarked
  /\ [][NoChangeWritesNothing]_vars

C3_Witness ==
  \E r \in RunIds :
    /\ run[r].pc = "metrics_write"
    /\ run[r].blogOutcome = "same"
    /\ run[r].lediOutcome = "same"
    /\ kv.LAST_BLOG_POST # Absent
    /\ kv.LAST_BLOG_POST.json.extractedAt < run[r].startTime
    /\ kv.SYSTEM_STATUS = Json(run[r].status)
    /\ run[r].status.emailStatus = "ok"

Returned(l) == l.pc \in {"blog_returned", "ledi_returned"}

FailedAt(l, i) == l.trace[i] # OkMark

\* C4: a scraper whose attempts 1 and 2 fail and whose attempt 3 succeeds
\* returns the snapshot of attempt 3 after exactly two waits, of 1000 and
\* 2000 ms (each at most 5000 ms, not decreasing); a scraper that returns a
\* snapshot has waited once per failed attempt and not after the success.
C4_RetryThenSuccess ==
  \A r \in RunIds :
    LET l == run[r] IN
    /\ (Returned(l) /\ l.ret.ok) =>
         /\ l.trace[Len(l.trace)] = OkMark
         /\ \A i \in 1..(Len(l.trace) - 1) : FailedAt(l, i)
         /\ Len(l.delays) = Len(l.trace) - 1
         /\ l.ret.value.attempt = Len(l.trace)
    /\ (Returned(l) /\ Len(l.trace) = 3 /\ FailedAt(l, 1) /\ FailedAt(l, 2)
          /\ l.trace[3] = OkMark) =>
         /\ l.ret.ok
         /\ l.ret.value.attempt = 3
         /\ (l.pc = "blog_returned" => BlogSnapshotValid(l.ret.value))
         /\ (l.pc = "ledi_returned" => LediSnapshotValid(l.ret.value))
         /\ l.delays = <<1000, 2000>>
         /\ \A i \in 1..Len(l.delays) : l.delays[i] <= 5000
         /\ l.delays[1] <= l.delays[2]

C4_Witness ==
  \E r \in RunIds :
    /\ run[r].pc = "ledi_returned"
    /\ Len(run[r].trace) = 3
    /\ run[r].trace[3] = OkMark
    /\ run[r].ret.ok
    /\ run[r].blogOutcome = "new"

\* C5: a scraper all of whose attempts fail makes exactly 3 attempts, waits
\* after the first and the second only, and throws a failure with attempts = 3
\* and the third attempt's error as originalError; it returns no snapshot.
\* A scraper throws in no other case.
C5_RetryExhausted ==
  \A r \in RunIds :
    LET l == run[r] IN
    /\ (Returned(l) /\ \A i \in 1..Len(l.trace) : FailedAt(l, i)) =>
         /\ Len(l.trace) = 3
         /\ ~l.ret.ok
         /\ l.ret.error.attempts = 3
         /\ l.ret.error.originalError = l.trace[3]
         /\ l.delays = <<1000, 2000>>
    /\ (Returned(l) /\ ~l.ret.ok) =>
         /\ Len(l.trace) = 3
         /\ \A i \in 1..3 : FailedAt(l, i)
    /\ (l.pc \in {"blog_fetch", "ledi_fetch", "ledi_changes"}) =>
         /\ l.attempt <= 3
         /\ Len(l.trace) = l.attempt - 1
         /\ Len(l.delays) = l.attempt - 1

C5_Witness ==
  \E r \in RunIds :
    /\ run[r].pc = "ledi_returned"
    /\ ~run[r].ret.ok
    /\ run[r].trace[1] # run[r].trace[3]
    /\ run[r].ret.error.originalError = ErrLediVersion

LacksBlogField(st) == st.title \in {NULL, <<>>} \/ st.link \in {NULL, <<>>}

LacksLediField(st) == st.version \in {NULL, <<>>}

\* C6: bootstrap: with no stored snapshot (null), or with a stored snapshot
\* that lacks a defining field (title or link for the blog, version for
\* LEDI), the detector reports every freshly scraped snapshot as new.
C6_Bootstrap ==
  det.kind # "none" /\ det.done =>
    /\ det.stored = NullObj => det.result
    /\ (det.stored # NullObj /\ det.kind = "blog" /\ LacksBlogField(det.stored)) => det.result
    /\ (det.stored # NullObj /\ det.kind = "ledi" /\ LacksLediField(det.stored)) => det.result

C6_Witness ==
  /\ det.kind = "blog" /\ det.done /\ det.result
  /\ det.stored # NullObj
  /\ det.stored.link = NULL
  /\ det.stored.title = det.current.title

\* C7: the detector applied to a snapshot and itself reports no change.
C7_SameSnapshotNotNew ==
  (det.kind # "none" /\ det.done /\ det.current = det.stored) => ~det.result

C7_Witness ==
  det.kind = "ledi" /\ det.done /\ det.current = det.stored /\ ~det.result

\* C8: blog snapshots with the same title and different links are reported
\* as new; for LEDI the result is decided by the version string alone, so a
\* stored snapshot with the same version and other changes or extractedAt is
\* reported as not new.
C8_DefiningFields ==
  det.kind # "none" /\ det.done /\ det.stored # NullObj =>
    /\ (det.kind = "blog" /\ det.current.title = det.stored.title
          /\ det.current.link # det.stored.link) => det.result
    /\ (det.kind = "ledi" /\ det.current.version = det.stored.version) => ~det.result
    /\ (det.kind = "ledi" /\ det.current.version # det.stored.version) => det.result

C8_Witness ==
  /\ det.kind = "blog" /\ det.done /\ det.result
  /\ det.stored # NullObj
  /\ det.current.title = det.stored.title
  /\ det.stored.link \notin {NULL, <<>>}
  /\ det.current.link # det.stored.link
  /\ det.current.extractedAt = det.stored.extractedAt
  /\ det.current.attempt = det.stored.attempt

CountIn(arr, e) == Cardinality({i \in 1..Len(arr) : arr[i] = e})

StoredEmailsArray == IF kv.EMAILS = Absent THEN <<>> ELSE kv.EMAILS.json

\* C9: of two requests served one after the other with e-mails that
\* normalize to the same string, where the first got the success response,
\* the second gets 200 'already subscribed', does not write the set and
\* sends no confirmation, and the set holds the address exactly once.
C9_SubscribeTwice ==
  \A q1 \in ReqIds, q2 \in ReqIds :
    (/\ req[q1].pc = "done" /\ req[q2].pc = "done"
     /\ q1 \in req[q2].pred
     /\ req[q1].norm # NULL /\ req[q1].norm = req[q2].norm
     /\ req[q1].response = RespSuccess) =>
       /\ req[q2].response = RespAlready
       /\ ~req[q2].wrote
       /\ req[q2].confirmations = 0
       /\ CountIn(StoredEmailsArray, req[q1].norm) = 1

\* C10: every element of the persisted subscriber set equals its own trim
\* and lower-case, passes isValidEmail, and occurs once.
C10_SubscribersNormalized ==
  \A i \in 1..Len(StoredEmailsArray) :
    LET e == StoredEmailsArray[i] IN
    /\ e # NULL /\ e # NonString
    /\ [j \in 1..Len(e) |-> ToLowerChar(e[j])] = e
    /\ Len(e) > 0 /\ ~IsSpace(e[1]) /\ ~IsSpace(e[Len(e)])
    /\ isValidEmail(e)
    /\ CountIn(StoredEmailsArray, e) = 1

C10_Witness ==
  /\ Len(StoredEmailsArray) = 2
  /\ \E q \in ReqIds :
       /\ req[q].pc = "done" /\ req[q].wrote
       /\ req[q].raw # req[q].norm
       /\ req[q].norm \in Range(StoredEmailsArray)

\* ------------------------------------------------------------------ C11
\* C11: the persisted subscriber set only grows: no step of any interleaving
\* of /subscribe requests, failed reads of the set included, removes an
\* address that was in the persisted set.
C11_SubscribersOnlyGrow ==
  [][Range(StoredEmailsArray) \subseteq
       Range(IF kv'.EMAILS = Absent THEN <<>> ELSE kv'.EMAILS.json)]_vars

\* ------------------------------------------------------------------ isValidEmail alone
\* isValidEmail applied to every string of at most MaxLen characters over a
\* small alphabet, and to the request inputs.
EmailAlphabet == {"a", "@", ".", " "}

ValidateInputs ==
  UNION { [1..n -> EmailAlphabet] : n \in 0..MaxLen } \cup EmailInputs

InitValidate ==
  /\ InitStore
  /\ det \in { [kind |-> "email", input |-> e, done |-> FALSE, result |-> FALSE] :
                 e \in ValidateInputs }

Validate ==
  /\ det.kind = "email" /\ ~det.done
  /\ det' = [det EXCEPT !.done = TRUE, !.result = isValidEmail(det.input)]
  /\ UNCHANGED <<kv, run, req, outbox, now, faults, misses>>

NextValidate == Validate

SpecValidate == InitValidate /\ [][NextValidate]_vars

\* ------------------------------------------------------------------ C12
\* local@domain.tld: exactly one '@', no whitespace, a non-empty local part,
\* and after the '@' a non-empty part, a dot and a non-empty rest
HasEmailShape(t) ==
  /\ Cardinality({k \in 1..Len(t) : t[k] = "@"}) = 1
  /\ \A k \in 1..Len(t) : ~IsSpace(t[k])
  /\ \E p \in 1..Len(t), d \in 1..Len(t) :
        /\ t[p] = "@" /\ t[d] = "."
        /\ Len(SubSeq(t, 1, p - 1)) > 0
        /\ Len(SubSeq(t, p + 1, d - 1)) > 0
        /\ Len(SubSeq(t, d + 1, Len(t))) > 0

InvalidEmailExamples ==
  { <<"a","@","b">>, <<"@","b",".","c">>, <<"a","@","b","@","c",".","d">>,
    <<>>, NULL, NonString }

\* C12: isValidEmail accepts exactly the strings that, once trimmed, have the
\* shape local@domain.tld with no whitespace and exactly one '@'; "a@b.c" is
\* valid, "a@b", "@b.c", "a@b@c.d", "" and null or a non-string are not.
C12_EmailShape ==
  (det.kind = "email" /\ det.done) =>
     /\ det.result = (det.input \notin {NULL, NonString} /\ HasEmailShape(Trim(det.input)))
     /\ det.input = Str_a_b_c => det.result
     /\ det.input \in InvalidEmailExamples => ~det.result

C12_Witness ==
  /\ det.kind = "email" /\ det.done
  /\ det.result
  /\ det.input # Trim(det.input)

\* ------------------------------------------------------------------ C13
\* an e-mail field that is missing, not a string, or not of the valid shape
FailsValidation(e) == e \in {NULL, NonString} \/ ~HasEmailShape(Trim(e))

InvalidRejected ==
  \A q \in ReqIds :
     (req[q].parsed /\ FailsValidation(req[q].raw)) =>
        /\ req[q].pc = "done"
        /\ req[q].response.status = 400
        /\ "error" \in DOMAIN req[q].response
        /\ ~req[q].wrote
        /\ req[q].confirmations = 0

InvalidWritesNothing ==
  \A q \in ReqIds :
     (~req[q].parsed /\ req'[q].parsed /\ FailsValidation(req'[q].raw)) =>
        /\ kv' = kv
        /\ outbox' = outbox

\* C13: POST /subscribe with an e-mail that fails validation ('invalid',
\* 'test@', '@domain.com', 'test@domain', empty or missing) is answered 400
\* with an error field, changes nothing in the store and sends no e-mail.
C13_InvalidRejected == []InvalidRejected /\ [][InvalidWritesNothing]_vars

C13_Witness ==
  \E q \in ReqIds :
     /\ req[q].parsed
     /\ req[q].raw = <<"t","e","s","t","@","d","o","m","a","i","n">>
     /\ req[q].response = RespInvalid
     /\ kv.EMAILS # Absent

\* ------------------------------------------------------------------ C14
\* C14: a request answered with the success message has had its address
\* written to the persisted subscriber set; a failed write of the set is
\* answered 500, never with the success message.
C14_SuccessMeansStored ==
  \A q \in ReqIds :
     (req[q].pc = "done" /\ req[q].response = RespSuccess) => req[q].wrote

\* ------------------------------------------------------------------ sendNotificationEmails alone
\* One call of sendNotificationEmails from checkForUpdates (line 716), over
\* every subscriber set of at most MaxSubs addresses, the notification lists
\* a run can queue, and every outcome of each send.
SubscriberPool ==
  { Str_a_b_c, <<"x","@","b",".","c">>, <<"c","@","b",".","c">> }

SubscriberArrays ==
  { arr \in UNION { [1..n -> SubscriberPool] : n \in 0..MaxSubs } :
      \A i \in 1..Len(arr), j \in 1..Len(arr) : arr[i] = arr[j] => i = j }

BlogNote == [type |-> "blog", data |-> CHOOSE v \in BlogSnapshots : TRUE]
LediNote == [type |-> "ledi", data |-> CHOOSE v \in LediSnapshots : TRUE]

NotificationLists == { <<BlogNote>>, <<LediNote>>, <<BlogNote, LediNote>> }

InitNotify ==
  /\ \E arr \in SubscriberArrays :
        kv = [k \in KV_KEYS |-> IF k = "EMAILS" /\ arr # <<>> THEN Json(arr) ELSE Absent]
  /\ \E notes \in NotificationLists :
        run = [r \in RunIds |->
                 IF r = 1
                 THEN [RunIdle EXCEPT !.pc = "notify_read", !.startTime = 1,
                                      !.status = [lastCheck |-> 1, blogStatus |-> "ok",
                                                  lediStatus |-> "ok", emailStatus |-> "ok"],
                                      !.hasUpdates = TRUE, !.notifications = notes]
                 ELSE RunIdle]
  /\ req = [q \in ReqIds |-> ReqIdle]
  /\ outbox = <<>>
  /\ now = 1
  /\ faults = 0
  /\ misses = 0
  /\ det = DetIdle

NextNotify ==
  \/ \E r \in RunIds, res \in KvResults : NotifyRead(r, res)
  \/ \E r \in RunIds, sent \in SendResults : NotifySend(r, sent)

SpecNotify == InitNotify /\ [][NextNotify]_vars

\* ------------------------------------------------------------------ C15
\* the subscribers the call read: the stored array, or none when the read of
\* the set threw (the only KV operation of the call)
SubscribersRead == IF faults = 0 THEN StoredEmailsArray ELSE <<>>

NotifyReturned(l) == l.pc = "status_store"

MailsTo(e) == Cardinality({i \in 1..Len(outbox) : outbox[i].to = e})

\* C15: with n subscribers sendNotificationEmails attempts exactly n sends,
\* one consolidated e-mail per subscriber when several notifications fired
\* and one e-mail per subscriber when a single one fired; with no subscriber
\* it attempts no send and returns 0.
C15_FanOut ==
  \A r \in RunIds :
     NotifyReturned(run[r]) =>
        /\ Len(outbox) = Len(SubscribersRead)
        /\ \A e \in Range(SubscribersRead) : MailsTo(e) = 1
        /\ \A i \in 1..Len(outbox) :
              outbox[i].type = IF Len(run[r].notifications) > 1 THEN "consolidated"
                               ELSE run[r].notifications[1].type
        /\ Len(SubscribersRead) = 0 => run[r].emailsSent = 0

C15_Witness ==
  \E r \in RunIds :
     /\ NotifyReturned(run[r])
     /\ Len(run[r].notifications) = 2
     /\ Len(StoredEmailsArray) = 2
     /\ Len(outbox) = 2

\* ------------------------------------------------------------------ C16
Confirmed == {i \in 1..Len(outbox) : outbox[i].ok}

\* C16: sendNotificationEmails returns the number of sends the mail API
\* confirmed; a failed or throwing send counts as not sent and the sends to
\* the remaining subscribers go on, so every subscriber read at the start is
\* attempted and the count lies between 0 and the number of attempts.
C16_CountsConfirmed ==
  \A r \in RunIds :
     /\ run[r].pc = "notify_send" =>
           /\ run[r].idx \in 1..Len(run[r].emailList)
           /\ run[r].emailsSent = Cardinality(Confirmed)
     /\ NotifyReturned(run[r]) =>
           /\ run[r].emailsSent = Cardinality(Confirmed)
           /\ run[r].emailsSent \in 0..Len(outbox)
           /\ \A e \in Range(SubscribersRead) : MailsTo(e) >= 1

C16_Witness ==
  \E r \in RunIds :
     /\ NotifyReturned(run[r])
     /\ Len(outbox) = 2
     /\ ~outbox[1].ok
     /\ outbox[2].ok
     /\ run[r].emailsSent = 1

\* ------------------------------------------------------------------ storeExecutionMetrics alone
\* MaxRecords scheduled invocations one after the other, each taken at the
\* point where scheduled has the result of checkForUpdates in hand and calls
\* storeExecutionMetrics (line 87) with the record of that run.
MetricsCall(r) ==
  /\ Quiet
  /\ now < MaxRecords
  /\ now' = now + 1
  /\ run' = [run EXCEPT ![r] =
       [RunIdle EXCEPT !.pc = "metrics_read", !.startTime = now',
                       !.status = [lastCheck |-> now', blogStatus |-> "ok",
                                   lediStatus |-> "ok", emailStatus |-> "ok"]]]
  /\ UNCHANGED <<kv, req, outbox, faults, misses, det>>

NextMetrics ==
  \/ \E r \in RunIds : MetricsCall(r)
  \/ \E r \in RunIds, res \in KvResults : MetricsRead(r, res)
  \/ \E r \in RunIds, res \in KvResults : MetricsWrite(r, res)

SpecMetrics == Init /\ [][NextMetrics]_vars

\* ------------------------------------------------------------------ C17
StoredMetrics ==
  IF kv.EXECUTION_METRICS = Absent THEN <<>> ELSE kv.EXECUTION_METRICS.json

MetricStamps == {StoredMetrics[i].timestamp : i \in 1..Len(StoredMetrics)}

\* C17: after any sequence of non-overlapping storeExecutionMetrics calls the
\* persisted buffer holds at most 50 entries, in insertion order, and they
\* are the most recently appended ones: a record is missing from the tail
\* only if its own call failed, and after 60 records with no failure exactly
\* records 11..60 remain.
C17_MetricsCap ==
  /\ Len(StoredMetrics) <= 50
  /\ \A i \in 1..Len(StoredMetrics), j \in 1..Len(StoredMetrics) :
        i < j => StoredMetrics[i].timestamp < StoredMetrics[j].timestamp
  /\ Quiet =>
        LET oldest == IF Len(StoredMetrics) < 50 THEN 1 ELSE StoredMetrics[1].timestamp
        IN  /\ Cardinality((oldest..now) \ MetricStamps) <= faults
            /\ Len(StoredMetrics) = 50 => now - StoredMetrics[1].timestamp <= 49 + faults
  /\ (Quiet /\ faults = 0) =>
        /\ Len(StoredMetrics) = MinOf(now, 50)
        /\ \A i \in 1..Len(StoredMetrics) :
              StoredMetrics[i].timestamp = now - Len(StoredMetrics) + i
  /\ (Quiet /\ faults = 0 /\ now = 60) => MetricStamps = 11..60

C17_Witness ==
  /\ Quiet
  /\ faults = 0
  /\ now = 60
  /\ Len(StoredMetrics) = 50
  /\ StoredMetrics[1].timestamp = 11
  /\ StoredMetrics[50].timestamp = 60

\* ------------------------------------------------------------------ storeErrorLog alone
\* MaxErrors calls of storeErrorLog one after the other. det holds the call:
\* its place, the entry it builds (lines 1894-1900), the array it is about to
\* write and what it returned.
\* lines 1894-1900: the entry, with the call's number standing for the UUID
ErrorLogCall ==
  /\ det = DetIdle \/ (det.kind = "errlog" /\ det.pc = "done")
  /\ now < MaxErrors
  /\ now' = now + 1
  /\ det' = [kind |-> "errlog", pc |-> "read",
             entry |-> [timestamp |-> now', message |-> ErrNetwork.message, id |-> now'],
             errorLogs |-> <<>>, ret |-> NullObj]
  /\ UNCHANGED <<kv, run, req, outbox, faults, misses>>

\* lines 1903-1916: read the log and push; a throw goes to the catch (null)
ErrorLogRead(res) ==
  /\ KvOp(res)
  /\ det.kind = "errlog" /\ det.pc = "read"
  /\ det' = IF res = "throws" THEN [det EXCEPT !.pc = "done", !.ret = NullObj]
            ELSE [det EXCEPT !.pc = "write",
                             !.errorLogs = PushError(IF kv.ERROR_LOG = Absent THEN <<>>
                                                     ELSE kv.ERROR_LOG.json, det.entry)]
  /\ UNCHANGED <<kv, run, req, outbox, now, misses>>

\* lines 1918-1925: write the log and return the id; a throw returns null
ErrorLogWrite(res) ==
  /\ KvOp(res)
  /\ det.kind = "errlog" /\ det.pc = "write"
  /\ kv' = IF res = "ok" THEN [kv EXCEPT !.ERROR_LOG = Json(det.errorLogs)] ELSE kv
  /\ det' = [det EXCEPT !.pc = "done", !.errorLogs = <<>>,
                        !.ret = IF res = "ok" THEN [id |-> det.entry.id] ELSE NullObj]
  /\ UNCHANGED <<run, req, outbox, now, misses>>

NextErrorLog ==
  \/ ErrorLogCall
  \/ \E res \in KvResults : ErrorLogRead(res)
  \/ \E res \in KvResults : ErrorLogWrite(res)

SpecErrorLog == Init /\ [][NextErrorLog]_vars

\* ------------------------------------------------------------------ C18
StoredErrors == IF kv.ERROR_LOG = Absent THEN <<>> ELSE kv.ERROR_LOG.json

ErrorIds == {StoredErrors[i].id : i \in 1..Len(StoredErrors)}

ErrorCallDone == det = DetIdle \/ (det.kind = "errlog" /\ det.pc = "done")

ErrorLogBounded ==
  /\ Len(StoredErrors) <= 100
  /\ \A i \in 1..Len(StoredErrors), j \in 1..Len(StoredErrors) :
        i < j => StoredErrors[i].id < StoredErrors[j].id
  /\ ErrorCallDone =>
        LET oldest == IF Len(StoredErrors) < 100 THEN 1 ELSE StoredErrors[1].id
        IN  Cardinality((oldest..now) \ ErrorIds) <= faults
  /\ (ErrorCallDone /\ faults = 0) =>
        /\ Len(StoredErrors) = MinOf(now, 100)
        /\ \A i \in 1..Len(StoredErrors) : StoredErrors[i].id = now - Len(StoredErrors) + i
  /\ (det.kind = "errlog" /\ det.pc = "done") =>
        \/ det.ret = [id |-> det.entry.id] /\ StoredErrors[Len(StoredErrors)] = det.entry
        \/ det.ret = NullObj /\ det.entry.id \notin ErrorIds

ErrorLogFailureWritesNothing ==
  (det.kind = "errlog" /\ det'.kind = "errlog" /\ det.pc # "done" /\ det'.pc = "done"
     /\ det'.ret = NullObj) => kv' = kv

\* C18: after any sequence of non-overlapping storeErrorLog calls the
\* persisted log holds at most 100 entries, in insertion order, the most
\* recently appended ones; a call returns the id of its entry, or null when
\* the store fails, and then the log is unchanged.
C18_ErrorLogCap == []ErrorLogBounded /\ [][ErrorLogFailureWritesNothing]_vars

C18_Witness ==
  /\ det.kind = "errlog" /\ det.pc = "done"
  /\ det.ret = [id |-> 105]
  /\ faults = 1
  /\ Len(StoredErrors) = 100
  /\ StoredErrors[1].id < 6

\* ------------------------------------------------------------------ GET /health
\* lastCheck: null of the two default records of getSystemStatus
NoCheck == 0

\* getSystemStatus: the stored record, the 'unknown' record when the key is
\* missing, the 'error' record when the read throws
getSystemStatus(res) ==
  IF res = "throws"
  THEN [lastCheck |-> NoCheck, blogStatus |-> "error", lediStatus |-> "error",
        emailStatus |-> "error"]
  ELSE IF kv.SYSTEM_STATUS = Absent
  THEN [lastCheck |-> NoCheck, blogStatus |-> "unknown", lediStatus |-> "unknown",
        emailStatus |-> "unknown"]
  ELSE kv.SYSTEM_STATUS.json

\* getExecutionMetrics: the stored array, [] when missing or on a throw
getExecutionMetrics(res) ==
  IF res = "throws" \/ kv.EXECUTION_METRICS = Absent THEN <<>>
  ELSE kv.EXECUTION_METRICS.json

\* getSubscriberCount
getSubscriberCount(res) == Len(getStoredEmails(res))

\* recentMetrics.filter(m => m.success).length
RECURSIVE CountSuccess(_)
CountSuccess(seq) ==
  IF seq = <<>> THEN 0
  ELSE (IF seq[1].success THEN 1 ELSE 0) + CountSuccess(SubSeq(seq, 2, Len(seq)))

\* recentMetrics.reduce((sum, m) => sum + m.duration, 0)
RECURSIVE SumDuration(_)
SumDuration(seq) ==
  IF seq = <<>> THEN 0 ELSE seq[1].duration + SumDuration(SubSeq(seq, 2, Len(seq)))

\* The variant that truncates instead of rounding.
RoundDivFloor(num, den) == num \div den

\* Math.round of the quotient num / den of two naturals
RoundDiv(num, den) == (2 * num + den) \div (2 * den)

\* lines 1990-2008: the object getDetailedSystemHealth returns
DetailedHealth(status, metrics, subscriberCount) ==
  LET recentMetrics == SubSeq(metrics, SetMax({1, Len(metrics) - 9}), Len(metrics))
      n == Len(recentMetrics)
  IN  [lastCheck |-> status.lastCheck, blogStatus |-> status.blogStatus,
       lediStatus |-> status.lediStatus, emailStatus |-> status.emailStatus,
       metrics |-> [totalExecutions |-> Len(metrics),
                    recentSuccessRate |->
                       IF n > 0 THEN RoundDiv(100 * CountSuccess(recentMetrics), n) ELSE 0,
                    averageDuration |->
                       IF n > 0 THEN RoundDiv(SumDuration(recentMetrics), n) ELSE 0,
                    subscriberCount |-> subscriberCount],
       lastExecution |-> IF Len(metrics) > 0 THEN metrics[Len(metrics)] ELSE NullObj]

\* The variant that answers 503 as soon as one flag of the record is 'error'.
httpStatusFromFlags(detailedHealth) ==
  IF "error" \in {detailedHealth.blogStatus, detailedHealth.lediStatus,
                  detailedHealth.emailStatus}
  THEN 503 ELSE 200

\* line 194: 503 only when the object has a field status equal to 'error'
httpStatus(detailedHealth) ==
  IF "status" \in DOMAIN detailedHealth /\ detailedHealth["status"] = "error"
  THEN 503 ELSE 200

\* the first read of getDetailedSystemHealth (line 1985)
HealthStatus(res) ==
  /\ KvOp(res)
  /\ det.kind = "health" /\ det.pc = "status"
  /\ det' = [det EXCEPT !.pc = "metrics", !.statusRes = res, !.status = getSystemStatus(res)]
  /\ UNCHANGED <<kv, run, req, outbox, now, misses>>

\* line 1986
HealthMetrics(res) ==
  /\ KvOp(res)
  /\ det.kind = "health" /\ det.pc = "metrics"
  /\ det' = [det EXCEPT !.pc = "count", !.metricsRes = res,
                        !.metrics = getExecutionMetrics(res)]
  /\ UNCHANGED <<kv, run, req, outbox, now, misses>>

\* lines 1987-2008 and 194-205: the last read, then the response
HealthRespond(res) ==
  /\ KvOp(res)
  /\ det.kind = "health" /\ det.pc = "count"
  /\ LET detailedHealth == DetailedHealth(det.status, det.metrics, getSubscriberCount(res))
     IN  det' = [det EXCEPT !.pc = "done", !.metrics = <<>>,
                            !.response = [status |-> httpStatus(detailedHealth),
                                          body |-> detailedHealth]]
  /\ UNCHANGED <<kv, run, req, outbox, now, misses>>

\* The records storeSystemStatus is given (lines 648-653, 682, 708, 720, 724,
\* 1965-1969) and what storeExecutionMetrics and storeEmails leave behind.
StatusRecords ==
  [lastCheck : 1..MaxRuns, blogStatus : {"ok", "error"}, lediStatus : {"ok", "error"},
   emailStatus : {"ok", "warning", "error"}]

HealthStores ==
  { [k \in KV_KEYS |->
       CASE k = "SYSTEM_STATUS" -> st
         [] k = "EXECUTION_METRICS" -> me
         [] k = "EMAILS" -> em
         [] OTHER -> Absent] :
    st \in {Absent} \cup {Json(s) : s \in StatusRecords},
    me \in {Absent, Json(<<[timestamp |-> 1, duration |-> 0, success |-> TRUE, updates |-> 0,
                            status |-> [lastCheck |-> 1, blogStatus |-> "ok",
                                        lediStatus |-> "ok", emailStatus |-> "ok"]]>>)},
    em \in {Absent, Json(<<Str_a_b_c>>)} }

\* a GET /health request routed to handleHealthCheck (lines 37-38)
HealthIdle ==
  [kind |-> "health", pc |-> "status", statusRes |-> "ok", metricsRes |-> "ok",
   status |-> NullObj, metrics |-> <<>>, response |-> NullObj]

InitHealth ==
  /\ kv \in HealthStores
  /\ run = [r \in RunIds |-> RunIdle]
  /\ req = [q \in ReqIds |-> ReqIdle]
  /\ outbox = <<>>
  /\ now = MaxRuns
  /\ faults = 0
  /\ misses = 0
  /\ det = HealthIdle

NextHealth ==
  \/ \E res \in KvResults : HealthStatus(res)
  \/ \E res \in KvResults : HealthMetrics(res)
  \/ \E res \in KvResults : HealthRespond(res)

SpecHealth == InitHealth /\ [][NextHealth]_vars

\* ------------------------------------------------------------------ C19
HealthServed == det.kind = "health" /\ det.pc = "done"

\* C19: when the read of the System Status throws while GET /health is
\* served, the response status is 5xx and the body carries a timestamp.
C19_HealthDegrades ==
  (HealthServed /\ det.statusRes = "throws") =>
     /\ det.response.status \in 500..599
     /\ "timestamp" \in DOMAIN det.response.body

\* ------------------------------------------------------------------ C20
StatusFields == {"lastCheck", "blogStatus", "lediStatus", "emailStatus"}

HealthReportsStored ==
  (HealthServed /\ det.statusRes = "ok" /\ kv.SYSTEM_STATUS # Absent) =>
     /\ det.response.status = 200
     /\ \A f \in StatusFields : det.response.body[f] = kv.SYSTEM_STATUS.json[f]

HealthWritesNothing ==
  (det.kind = "health" /\ det' # det) => (kv' = kv /\ outbox' = outbox)

\* C20: when the System Status read succeeds GET /health answers 200 and
\* reports the last persisted status record as it is, a record whose flags
\* are all 'error' included; serving /health writes nothing to the store.
C20_HealthReportsStored == []HealthReportsStored /\ [][HealthWritesNothing]_vars

C20_Witness ==
  /\ HealthServed
  /\ det.statusRes = "ok"
  /\ kv.SYSTEM_STATUS # Absent
  /\ kv.SYSTEM_STATUS.json.blogStatus = "error"
  /\ kv.SYSTEM_STATUS.json.lediStatus = "error"
  /\ kv.SYSTEM_STATUS.json.emailStatus = "error"
  /\ det.response.status = 200

\* ------------------------------------------------------------------ C21
\* C21: whatever the store holds, the first scheduled run not yet made
\* included, GET /health answers 200 or 503 with a body that has a non-empty
\* lastCheck or a status field.
C21_HealthDocument ==
  HealthServed =>
     /\ det.response.status \in {200, 503}
     /\ \/ det.response.body.lastCheck # NoCheck
        \/ "status" \in DOMAIN det.response.body

\* ------------------------------------------------------------------ the health statistics alone
\* GET /health over metric buffers of up to MaxMetrics entries, and a full
\* one, mixing the records scheduled writes on success (lines 87-93) and on
\* failure (lines 104-110), with several durations.
OkStatus ==
  [lastCheck |-> 1, blogStatus |-> "ok", lediStatus |-> "ok", emailStatus |-> "ok"]

MetricAt(i, ok, step) ==
  IF ok
  THEN [timestamp |-> i, duration |-> i * step, success |-> TRUE, updates |-> 0,
        status |-> OkStatus]
  ELSE [timestamp |-> i, duration |-> i * step, success |-> FALSE,
        error |-> ErrNetwork.message,
        status |-> [blogStatus |-> "error", lediStatus |-> "error", emailStatus |-> "error"]]

MetricArrays ==
  { [i \in 1..n |-> MetricAt(i, i > f, step)] : n \in 0..MaxMetrics, f \in 0..MaxMetrics, step \in {1, 3} }
  \cup { [i \in 1..n |-> MetricAt(i, i % 3 # 0, 1)] : n \in 0..MaxMetrics }
  \cup { [i \in 1..MetricsCap |-> MetricAt(i, i % 2 = 0, 1)] }

InitStats ==
  /\ \E arr \in MetricArrays :
        kv = [k \in KV_KEYS |->
                CASE k = "EXECUTION_METRICS" /\ arr # <<>> -> Json(arr)
                  [] k = "SYSTEM_STATUS" -> Json(OkStatus)
                  [] OTHER -> Absent]
  /\ run = [r \in RunIds |-> RunIdle]
  /\ req = [q \in ReqIds |-> ReqIdle]
  /\ outbox = <<>>
  /\ now = 1
  /\ faults = 0
  /\ misses = 0
  /\ det = HealthIdle

SpecStats == InitStats /\ [][NextHealth]_vars

\* ------------------------------------------------------------------ C22
\* the metrics the request read: the stored buffer, or none when that read threw
MetricsSeen == IF det.metricsRes = "ok" THEN StoredMetrics ELSE <<>>

\* r is x / k rounded to the nearest integer, halves up
IsRounded(r, x, k) == 2 * x - k < 2 * k * r /\ 2 * k * r <= 2 * x + k

\* C22: the rolling statistics are taken over the last min(10, n) of the n
\* stored metrics: recentSuccessRate is the rounded percentage of those with
\* success = true (in 0..100, 0 when n = 0), averageDuration their rounded
\* mean duration, totalExecutions is n (at most 50), lastExecution the most
\* recently appended metric.
C22_RollingStatistics ==
  HealthServed =>
     LET m == MetricsSeen
         n == Len(m)
         k == MinOf(10, n)
         recent == (n - k + 1)..n
         wins == Cardinality({i \in recent : m[i].success})
         total[i \in 0..k] == IF i = 0 THEN 0 ELSE total[i - 1] + m[n - k + i].duration
         doc == det.response.body
     IN  /\ doc.metrics.totalExecutions = n
         /\ n <= 50
         /\ doc.metrics.recentSuccessRate \in 0..100
         /\ n = 0 => doc.metrics.recentSuccessRate = 0 /\ doc.metrics.averageDuration = 0
         /\ n > 0 => IsRounded(doc.metrics.recentSuccessRate, 100 * wins, k)
         /\ n > 0 => IsRounded(doc.metrics.averageDuration, total[k], k)
         /\ doc.lastExecution = IF n > 0 THEN m[n] ELSE NullObj

C22_Witness ==
  /\ HealthServed
  /\ Len(StoredMetrics) = 12
  /\ det.response.body.metrics.totalExecutions = 12
  /\ det.response.body.metrics.recentSuccessRate = 70
  /\ det.response.body.lastExecution.timestamp = 12

\* ------------------------------------------------------------------ C23
ConfirmationsTo(e) ==
  Cardinality({i \in 1..Len(outbox) : outbox[i].type = "confirmation" /\ outbox[i].to = e})

\* C23: subscribing sends exactly one confirmation e-mail attempt per newly
\* added subscriber, and a failed or throwing send never blocks the
\* subscription: the address stays in the persisted set and the response is
\* 200 with the success message.
C23_OneConfirmation ==
  \A q \in ReqIds :
     (req[q].pc = "done" /\ req[q].response = RespSuccess) =>
        /\ req[q].norm \in Range(StoredEmailsArray)
        /\ ConfirmationsTo(req[q].norm) = 1

\* ------------------------------------------------------------------ scheduled with its catch
\* One invocation of the scheduled handler on a store that earlier
\* invocations and requests may have written, where checkForUpdates may also
\* end by an exception: the case the catch of scheduled (lines 95-114) and
\* attemptRecovery are written for, as the catch around the notifier (lines
\* 722-725) is for one that leaves sendNotificationEmails.
FewBlogOutcomes ==
  { [kind |-> "abort"],
    [kind |-> "response", status |-> 200,
     page |-> [title |-> <<"N","e","w","s">>, href |-> <<"/","p","1">>, span |-> <<>>]] }

FewLediOutcomes ==
  { [kind |-> "network"],
    [kind |-> "response", status |-> 200, page |-> <<"7",".","3">>] }

InitScheduled ==
  /\ kv \in { [[k \in KV_KEYS |-> Absent] EXCEPT !.EMAILS = e, !.EXECUTION_METRICS = m] :
                e \in {Absent, Json(<<Str_a_b_c>>)},
                m \in {Absent, Json(<<MetricAt(0, TRUE, 1)>>)} }
  /\ run = [r \in RunIds |-> RunIdle]
  /\ req = [q \in ReqIds |-> ReqIdle]
  /\ outbox = <<>>
  /\ now = 0
  /\ faults = 0
  /\ misses = 0
  /\ det = DetIdle

NoRunYet == \A r \in RunIds : run[r].pc = "idle"

NextScheduled ==
  \/ \E r \in RunIds : NoRunYet /\ StartRun(r)
  \/ \E r \in RunIds, o \in FewBlogOutcomes : BlogFetch(r, o)
  \/ \E r \in RunIds, res \in KvResults : BlogCheck(r, res)
  \/ \E r \in RunIds, res \in KvResults : BlogStore(r, res)
  \/ \E r \in RunIds, o \in FewLediOutcomes : LediFetch(r, o)
  \/ \E r \in RunIds, o \in SomeChangesOutcomes : LediChanges(r, o)
  \/ \E r \in RunIds, res \in KvResults : LediCheck(r, res)
  \/ \E r \in RunIds, res \in KvResults : LediStore(r, res)
  \/ \E r \in RunIds, res \in KvResults : NotifyRead(r, res)
  \/ \E r \in RunIds, sent \in SomeSendResults : NotifySend(r, sent)
  \/ \E r \in RunIds, res \in KvResults : StatusStore(r, res)
  \/ \E r \in RunIds, res \in KvResults : MetricsRead(r, res)
  \/ \E r \in RunIds, res \in KvResults : MetricsWrite(r, res)
  \/ \E r \in RunIds : NotifyThrows(r)
  \/ \E r \in RunIds, err \in ThrownErrors : CheckThrows(r, err)
  \/ \E r \in RunIds, res \in KvResults : RecoveryLogRead(r, res)
  \/ \E r \in RunIds, res \in KvResults : RecoveryLogWrite(r, res)
  \/ \E r \in RunIds : RecoveryWait(r)
  \/ \E r \in RunIds, res \in KvResults : RecoveryStatus(r, res)

SpecScheduled == InitScheduled /\ [][NextScheduled]_vars
\* ------------------------------------------------------------------ C24
HttpStatuses == {200, 400, 500}

C25_EveryRunTerminates ==
  \A r \in RunIds :
     run[r].pc \notin {"idle", "ledi_returned"} => ENABLED NextScraper

\* ------------------------------------------------------------------ two runs at once
\* The scheduler fires twice: two invocations of scheduled whose steps
\* interleave freely on one KV namespace with no subscribers.
NextOverlap ==
  \/ \E r \in RunIds : StartRun(r)
  \/ \E r \in RunIds, o \in FewBlogOutcomes : BlogFetch(r, o)
  \/ \E r \in RunIds, res \in KvResults : BlogCheck(r, res)
  \/ \E r \in RunIds, res \in KvResults : BlogStore(r, res)
  \/ \E r \in RunIds, o \in FewLediOutcomes : LediFetch(r, o)
  \/ \E r \in RunIds, o \in SomeChangesOutcomes : LediChanges(r, o)
  \/ \E r \in RunIds, res \in KvResults : LediCheck(r, res)
  \/ \E r \in RunIds, res \in KvResults : LediStore(r, res)
  \/ \E r \in RunIds, res \in KvResults : NotifyRead(r, res)
  \/ \E r \in RunIds, res \in KvResults : StatusStore(r, res)
  \/ \E r \in RunIds, res \in KvResults : MetricsRead(r, res)
  \/ \E r \in RunIds, res \in KvResults : MetricsWrite(r, res)

SpecOverlap == Init /\ [][NextOverlap]_vars

\* ------------------------------------------------------------------ C26
RunsDone == {r \in RunIds : run[r].pc = "done"}

\* C26: overlapping scheduled runs are last-writer-wins with no exclusion.
\* A run's successful write of the metrics buffer leaves its own metric last
\* and the buffer at most one entry longer, whatever the other run wrote
\* since this run's read; when the runs have completed with no KV throw the
\* buffer holds at least one and at most one metric per run, and the stored
\* blog snapshot is one a run scraped. Both runs can complete with a single
\* metric stored, and a snapshot written by one run can be replaced by the
\* other's.
C26_LastWriterWins ==
  /\ [](faults = 0 =>
          /\ Len(StoredMetrics) <= Cardinality(RunsDone)
          /\ RunsDone # {} => Len(StoredMetrics) >= 1
          /\ \A i \in 1..Len(StoredMetrics) : StoredMetrics[i].status.lastCheck \in 1..now
          /\ kv.LAST_BLOG_POST # Absent => kv.LAST_BLOG_POST.json.extractedAt \in 1..now)
  /\ [][\A r \in RunIds :
          (run[r].pc = "metrics_write" /\ run'[r].pc = "done" /\ faults' = faults) =>
             /\ Len(StoredMetrics') >= 1
             /\ Len(StoredMetrics') <= Len(StoredMetrics) + 1
             /\ StoredMetrics'[Len(StoredMetrics')].status.lastCheck = run[r].startTime]_vars

\* Both runs completed, nothing threw, one metric is stored: that of the run
\* begun second, which stored both snapshots, while the stored blog snapshot
\* is the one the first run scraped before the second began.
C26_Witness ==
  /\ RunsDone = RunIds
  /\ faults = 0
  /\ Len(StoredMetrics) = 1
  /\ StoredMetrics[1].status.lastCheck = 2
  /\ StoredMetrics[1].updates = 2
  /\ kv.LAST_BLOG_POST # Absent
  /\ kv.LAST_BLOG_POST.json.extractedAt = 1

\* ------------------------------------------------------------------ C27
\* C27: a run sets emailStatus to 'warning' if and only if a notification was
\* queued, the subscriber set is not empty and no e-mail was confirmed sent;
\* a run that detects a change while there are no subscribers keeps 'ok'.
C27_WarningOnlyWithSubscribers ==
  \A r \in RunIds :
     NotifyReturned(run[r]) =>
        (run[r].status.emailStatus = "warning"
           <=> /\ Len(run[r].notifications) > 0
               /\ Len(StoredEmailsArray) > 0
               /\ run[r].emailsSent = 0)

\* ------------------------------------------------------------------ C28
SnapshotKey(type) == IF type = "blog" THEN "LAST_BLOG_POST" ELSE "LAST_LEDI_VERSION"

\* every change the run has queued is the stored snapshot of its source
SnapshotsWritten(l, store) ==
  \A i \in 1..Len(l.notifications) :
     store[SnapshotKey(l.notifications[i].type)] = Json(l.notifications[i].data)

AfterStorePcs == {"notify_read", "notify_send", "status_store", "metrics_read", "metrics_write"}

AllSendsFailed == Len(outbox) > 0 /\ \A i \in 1..Len(outbox) : ~outbox[i].ok

\* C28: a failure while sending notifications never rolls back the snapshot
\* write. From the notifier to the end of the run no step touches the two
\* snapshot keys, so a snapshot that was written for a detected change is
\* still the stored one after the run, also when every send failed or the
\* notifier threw; in the throwing case the run goes on with emailStatus
\* 'error'.
C28_NoRollback ==
  /\ [][\A r \in RunIds :
          run[r].pc \in AfterStorePcs =>
             /\ kv'.LAST_BLOG_POST = kv.LAST_BLOG_POST
             /\ kv'.LAST_LEDI_VERSION = kv.LAST_LEDI_VERSION
             /\ SnapshotsWritten(run[r], kv) => SnapshotsWritten(run[r], kv')]_vars
  /\ [](\A r \in RunIds :
          (run[r].pc = "status_store" /\ run[r].notifierThrew) =>
             run[r].status.emailStatus = "error")

C28_Witness ==
  \E r \in RunIds :
     /\ run[r].pc = "metrics_write"
     /\ Len(run[r].notifications) = 2
     /\ SnapshotsWritten(run[r], kv)
     /\ AllSendsFailed
     /\ run[r].status.emailStatus = "warning"

\* ------------------------------------------------------------------ C29
\* how often the invocation did the named thing
StepCount(l, what) == Cardinality({i \in 1..Len(l.steps) : l.steps[i] = what})

\* the stored metrics of the invocation under way (begun at time 1)
OwnMetrics == {i \in 1..Len(StoredMetrics) : StoredMetrics[i].timestamp >= 1}

\* C29 as stated: each invocation of scheduled appends exactly one Execution
\* Metric, whose success is false exactly when checkForUpdates threw.
C29_OneMetricPerInvocation ==
  \A r \in RunIds :
     run[r].pc = "done" =>
        /\ Cardinality(OwnMetrics) = 1
        /\ \A i \in OwnMetrics : StoredMetrics[i].success = (StepCount(run[r], "threw") = 0)

\* one step of storeExecutionMetrics that did not throw appended m to the buffer
AppendedMetric(l) ==
  /\ Len(StoredMetrics') = Len(StoredMetrics) + 1
  /\ SubSeq(StoredMetrics', 1, Len(StoredMetrics)) = StoredMetrics
  /\ LET m == StoredMetrics'[Len(StoredMetrics')]
     IN  /\ m.timestamp = now
         /\ m.success = (l.thrown = NullObj)
         /\ m.success => m.updates = Len(l.notifications)

\* C29, amended: each invocation of scheduled calls storeExecutionMetrics
\* exactly once, also when recovery runs the update check again. The call
\* appends exactly one metric, with success true and updates the number of
\* queued notifications when checkForUpdates returned and success false when
\* it threw, unless its read or its write of the buffer throws, and then the
\* buffer is left as it was.
C29_OneMetricsCall ==
  /\ [](\A r \in RunIds :
          /\ StepCount(run[r], "metric") <= 1
          /\ run[r].pc = "done" => StepCount(run[r], "metric") = 1)
  /\ [][\A r \in RunIds :
          /\ (run[r].pc = "metrics_read" /\ run'[r].pc # "metrics_write") =>
                faults' = faults + 1 /\ kv' = kv
          /\ (run[r].pc = "metrics_write" /\ run'[r].pc # "metrics_write") =>
                \/ faults' = faults + 1 /\ kv' = kv
                \/ faults' = faults /\ AppendedMetric(run[r])]_vars

C29_Witness ==
  \E r \in RunIds :
     /\ run[r].pc = "done"
     /\ StepCount(run[r], "check") = 1
     /\ Len(StoredMetrics) = 2
     /\ ~StoredMetrics[2].success
     /\ StoredMetrics[2].timestamp = 1
     /\ now = 2

\* ------------------------------------------------------------------ C30
RecoveryPcs ==
  {"recovery_log_read", "recovery_log_write", "recovery_wait", "recovery_status"}

\* the invocation is inside attemptRecovery
InRecovery(l) == l.pc \in RecoveryPcs \/ l.recovering

\* C30: when an exception leaves checkForUpdates, scheduled first calls
\* storeExecutionMetrics with a failed metric and then attemptRecovery, once,
\* whose first act is storeErrorLog with the original error: unless the store
\* throws, the failed metric is in the buffer before recovery begins and the
\* error is in the log before the wait, the second check or the error status.
\* attemptRecovery is never entered for a run whose checkForUpdates returned.
C30_CatchOrder ==
  /\ [](\A r \in RunIds :
          LET l == run[r]
          IN  /\ StepCount(l, "recovery") <= 1
              /\ InRecovery(l) => StepCount(l, "threw") = 1
              /\ StepCount(l, "threw") = 0 =>
                    /\ StepCount(l, "recovery") = 0
                    /\ StepCount(l, "check") = 0
                    /\ StepCount(l, "status") = 0
              /\ StepCount(l, "recovery") = 1 =>
                    SubSeq(l.steps, 1, 3) = <<"threw", "metric", "recovery">>
              /\ StepCount(l, "check") + StepCount(l, "status") > 0 =>
                    StepCount(l, "recovery") = 1
              /\ (l.pc = "done" /\ StepCount(l, "threw") = 1) =>
                    StepCount(l, "recovery") = 1
              /\ (l.pc \in RecoveryPcs /\ faults = 0) =>
                    /\ Len(StoredMetrics) >= 1
                    /\ ~StoredMetrics[Len(StoredMetrics)].success
                    /\ StoredMetrics[Len(StoredMetrics)].error = l.thrown.message
              /\ (l.pc \in {"recovery_wait", "recovery_status"} /\ faults = 0) =>
                    /\ Len(StoredErrors) >= 1
                    /\ StoredErrors[1].message = l.thrown.message)
  /\ [][\A r \in RunIds :
          (run[r].pc = "recovery_log_read" /\ run[r].recoveryError = NullObj) =>
             /\ kv'.SYSTEM_STATUS = kv.SYSTEM_STATUS
             /\ kv'.EXECUTION_METRICS = kv.EXECUTION_METRICS
             /\ now' = now]_vars

C30_Witness ==
  \E r \in RunIds :
     /\ run[r].pc = "recovery_wait"
     /\ run[r].steps = <<"threw", "metric", "recovery">>
     /\ faults = 0
     /\ Len(StoredErrors) = 1
     /\ StoredErrors[1].message = run[r].thrown.message
     /\ Len(StoredMetrics) = 2
     /\ ~StoredMetrics[2].success

\* ------------------------------------------------------------------ C31
\* the errors of ThrownErrors whose message names the network
NetworkErrors ==
  { [message |-> <<"f","e","t","c","h"," ","f","a","i","l","e","d">>],
    [message |-> <<"n","e","t","w","o","r","k">>] }

\* C31: attemptRecovery runs checkForUpdates again at most once per
\* invocation, and only for an original error whose message contains 'fetch'
\* or 'network', after the wait; for any other error there is no second
\* check, and the second check never leads to a further recovery or a
\* second metric.
C31_OneRecoveryRun ==
  /\ [](\A r \in RunIds :
          LET l == run[r]
          IN  /\ StepCount(l, "check") <= 1
              /\ StepCount(l, "recovery") <= 1
              /\ StepCount(l, "check") = 1 =>
                    /\ StepCount(l, "threw") = 1
                    /\ l.thrown \in NetworkErrors
              /\ l.recovering =>
                    /\ StepCount(l, "check") = 1
                    /\ l.pc \notin {"metrics_read", "metrics_write", "recovery_wait"}
              /\ (l.pc = "done" /\ StepCount(l, "threw") = 1
                    /\ l.thrown \notin NetworkErrors) => StepCount(l, "check") = 0)
  /\ [][\A r \in RunIds :
          StepCount(run'[r], "check") > StepCount(run[r], "check") =>
             /\ run[r].pc = "recovery_wait"
             /\ now' > now
             /\ run'[r].pc = "blog_fetch"]_vars

C31_Witness ==
  \E r \in RunIds :
     /\ run[r].pc = "done"
     /\ run[r].steps = <<"threw", "metric", "recovery", "check", "failed", "status">>
     /\ run[r].thrown.message = <<"n","e","t","w","o","r","k">>

\* ------------------------------------------------------------------ C32
\* how attemptRecovery ended: "recovered" when it returned true (line 1953),
\* "status" when it stored the error status and returned false (line 1974)
RecoveryEnd(l) == l.steps[Len(l.steps)]

\* the stored System Status is that of a check with a source ok, without lastError
StoredPartialSuccess(store) ==
  /\ store.SYSTEM_STATUS # Absent
  /\ "lastError" \notin DOMAIN store.SYSTEM_STATUS.json
  /\ \/ store.SYSTEM_STATUS.json.blogStatus = "ok"
     \/ store.SYSTEM_STATUS.json.lediStatus = "ok"

\* the stored System Status is the error record of attemptRecovery for err
StoredGiveUp(store, err) ==
  /\ store.SYSTEM_STATUS # Absent
  /\ DOMAIN store.SYSTEM_STATUS.json =
        {"lastCheck", "blogStatus", "lediStatus", "emailStatus", "lastError",
         "recoveryAttempted"}
  /\ store.SYSTEM_STATUS.json.blogStatus = "error"
  /\ store.SYSTEM_STATUS.json.lediStatus = "error"
  /\ store.SYSTEM_STATUS.json.emailStatus = "error"
  /\ store.SYSTEM_STATUS.json.lastError = err.message
  /\ store.SYSTEM_STATUS.json.recoveryAttempted

Recovered(l) == l.pc = "done" /\ StepCount(l, "recovery") = 1

\* C32 as stated: when attemptRecovery has finished, either the second check
\* reported a source ok, it returned true and the persisted System Status is
\* the one of that check, or it returned false and the persisted System
\* Status is the error record with the original message.
C32_RecoveryOutcome ==
  \A r \in RunIds :
     Recovered(run[r]) =>
        IF RecoveryEnd(run[r]) = "recovered"
        THEN StoredPartialSuccess(kv) /\ kv.SYSTEM_STATUS.json.lastCheck = now
        ELSE StoredGiveUp(kv, run[r].thrown)

\* C32, amended: the same, unless the put of storeSystemStatus throws, and
\* then the persisted System Status is left as it was.
C32_RecoveryOutcomeUnlessPutThrows ==
  /\ [](\A r \in RunIds :
          Recovered(run[r]) =>
             /\ RecoveryEnd(run[r]) \in {"recovered", "status"}
             /\ RecoveryEnd(run[r]) = "recovered" => StepCount(run[r], "check") = 1)
  /\ [][\A r \in RunIds :
          (~Recovered(run[r]) /\ Recovered(run'[r])) =>
             \/ faults' = faults + 1 /\ kv' = kv
             \/ /\ faults' = faults
                /\ IF RecoveryEnd(run'[r]) = "recovered"
                   THEN /\ StoredPartialSuccess(kv')
                        /\ kv'.SYSTEM_STATUS.json.lastCheck = now
                        /\ run[r].status.blogStatus = "ok" \/ run[r].status.lediStatus = "ok"
                   ELSE /\ StoredGiveUp(kv', run[r].thrown)
                        /\ ~run[r].recovering
                              \/ run[r].recoveryError # NullObj
                              \/ /\ run[r].status.blogStatus = "error"
                                 /\ run[r].status.lediStatus = "error"]_vars

C32_Witness ==
  \E r \in RunIds :
     /\ Recovered(run[r])
     /\ RecoveryEnd(run[r]) = "recovered"
     /\ faults = 0
     /\ StoredPartialSuccess(kv)
     /\ kv.SYSTEM_STATUS.json.blogStatus = "error"
     /\ kv.SYSTEM_STATUS.json.lastCheck = 2

\* ------------------------------------------------------------------ C33
\* a source of the run ended in failure after its last attempt
ScrapeFailed(l) == l.blogOutcome = "failed" \/ l.lediOutcome = "failed"

\* the error log holds an entry made since the run began
LoggedSince(store, t) ==
  /\ store.ERROR_LOG # Absent
  /\ \E i \in 1..Len(store.ERROR_LOG.json) : store.ERROR_LOG.json[i].timestamp >= t

\* C33: whenever a source scrape fails after all retries during a scheduled
\* run, a new entry for the error is in the persisted error log by the end
\* of that run.
C33_ScrapeFailureLogged ==
  [][\A r \in RunIds :
       (run[r].pc # "done" /\ run'[r].pc = "done" /\ ScrapeFailed(run[r]) /\ faults' = 0) =>
          LoggedSince(kv', run[r].startTime)]_vars

\* ------------------------------------------------------------------ C34
ChangesFailed(o) == o.kind = "network" \/ ~ResponseOk(o.status)

\* C34: the changelog fetch is best-effort inside the LEDI scrape. Once the
\* version page gave a version, a changelog fetch that fails on the network
\* or is answered with an HTTP error leaves getLatestLediVersion returning
\* that version on the same attempt, with the placeholder text as changes:
\* no retry is consumed, no delay added, and the LEDI status stays 'ok'.
C34_ChangesBestEffort ==
  [][\A r \in RunIds, o \in ChangesOutcomes :
       (LediChanges(r, o) /\ ChangesFailed(o)) =>
          /\ run'[r].pc = "ledi_returned"
          /\ run'[r].ret.ok
          /\ run'[r].ret.value.version = run[r].partial.version
          /\ run'[r].ret.value.changes = ChangesFallback
          /\ run'[r].attempt = run[r].attempt
          /\ run'[r].delays = run[r].delays
          /\ misses' = misses
          /\ run'[r].status.lediStatus = "ok"]_vars

C34_Witness ==
  \E r \in RunIds :
     /\ run[r].pc = "ledi_returned"
     /\ run[r].ret.ok
     /\ run[r].ret.value.changes = ChangesFallback
     /\ run[r].attempt = 2
     /\ Len(run[r].delays) = 1

\* ------------------------------------------------------------------ C35
\* the place of a run in the text of checkForUpdates and scheduled
StepOrder ==
  <<"idle", "blog_fetch", "blog_returned", "blog_store", "ledi_fetch", "ledi_changes",
    "ledi_returned", "ledi_store", "notify_read", "notify_send", "status_store",
    "metrics_read", "metrics_write", "done">>

Rank(pc) == CHOOSE i \in 1..Len(StepOrder) : StepOrder[i] = pc

UpdateMails(box) == {i \in 1..Len(box) : box[i].type # "confirmation"}

\* C35: within one run the steps happen in order. The blog is scraped and
\* compared before LEDI, the snapshots are written only before the notifier
\* is entered, e-mails go out only in the notifier, the System Status is
\* written once, after the notifier, and the metric only after the status.
C35_StepOrder ==
  [][\A r \in RunIds :
       run'[r] # run[r] =>
          /\ Rank(run'[r].pc) >= Rank(run[r].pc)
          /\ kv'.LAST_BLOG_POST # kv.LAST_BLOG_POST => run[r].pc = "blog_store"
          /\ kv'.LAST_LEDI_VERSION # kv.LAST_LEDI_VERSION => run[r].pc = "ledi_store"
          /\ UpdateMails(outbox') # UpdateMails(outbox) => run[r].pc = "notify_send"
          /\ run[r].pc = "status_store" => run'[r].pc = "metrics_read"
          /\ kv'.SYSTEM_STATUS # kv.SYSTEM_STATUS => run[r].pc = "status_store"
          /\ kv'.EXECUTION_METRICS # kv.EXECUTION_METRICS => run[r].pc = "metrics_write"]_vars

C35_Witness ==
  \E r \in RunIds :
     /\ run[r].pc = "metrics_write"
     /\ Len(run[r].notifications) = 2
     /\ UpdateMails(outbox) # {}
     /\ SnapshotsWritten(run[r], kv)
     /\ kv.SYSTEM_STATUS = Json(run[r].status)

\* ------------------------------------------------------------------ C36
\* C36: a notification for a detected change is sent only if the new
\* snapshot was written to the store: every update e-mail of a run goes out
\* for changes whose snapshots are the stored ones.
C36_NotifyOnlyStored ==
  [][\A r \in RunIds :
       (run[r].pc = "notify_send" /\ UpdateMails(outbox') # UpdateMails(outbox)) =>
          SnapshotsWritten(run[r], kv)]_vars

\* ------------------------------------------------------------------ C37
\* C37: a failed read of a stored snapshot is not mistaken for a change.
\* When the store holds a snapshot with the content just scraped, the
\* compare step, whether its read is answered or throws, does not go on to
\* store the snapshot and queue a notification.
C37_FailedReadIsNoChange ==
  [][\A r \in RunIds :
       /\ (/\ run[r].pc = "blog_returned" /\ run[r].ret.ok
           /\ kv.LAST_BLOG_POST # Absent
           /\ ~hasNewBlogPost(run[r].ret.value, kv.LAST_BLOG_POST.json))
             => run'[r].pc # "blog_store"
       /\ (/\ run[r].pc = "ledi_returned" /\ run[r].ret.ok
           /\ kv.LAST_LEDI_VERSION # Absent
           /\ ~hasNewLediVersion(run[r].ret.value, kv.LAST_LEDI_VERSION.json))
             => run'[r].pc # "ledi_store"]_vars

\* ------------------------------------------------------------------ C38
\* One invocation of scheduled as the code runs it, with room for every
\* attempt of both scrapes to fail.
InitCheck ==
  /\ kv \in { [[k \in KV_KEYS |-> Absent] EXCEPT !.EMAILS = e, !.EXECUTION_METRICS = m] :
                e \in {Absent, Json(<<Str_a_b_c>>)},
                m \in {Absent, Json(<<MetricAt(0, TRUE, 1)>>)} }
  /\ run = [r \in RunIds |-> RunIdle]
  /\ req = [q \in ReqIds |-> ReqIdle]
  /\ outbox = <<>>
  /\ now = 0
  /\ faults = 0
  /\ misses = 0 - maxRetries
  /\ det = DetIdle

NextCheck ==
  \/ \E r \in RunIds : NoRunYet /\ StartRun(r)
  \/ \E r \in RunIds, o \in SomeBlogOutcomes : BlogFetch(r, o)
  \/ \E r \in RunIds, res \in KvResults : BlogCheck(r, res)
  \/ \E r \in RunIds, res \in KvResults : BlogStore(r, res)
  \/ \E r \in RunIds, o \in SomeLediOutcomes : LediFetch(r, o)
  \/ \E r \in RunIds, o \in SomeChangesOutcomes : LediChanges(r, o)
  \/ \E r \in RunIds, res \in KvResults : LediCheck(r, res)
  \/ \E r \in RunIds, res \in KvResults : LediStore(r, res)
  \/ \E r \in RunIds, res \in KvResults : NotifyRead(r, res)
  \/ \E r \in RunIds, sent \in SomeSendResults : NotifySend(r, sent)
  \/ \E r \in RunIds, res \in KvResults : StatusStore(r, res)
  \/ \E r \in RunIds, res \in KvResults : MetricsRead(r, res)
  \/ \E r \in RunIds, res \in KvResults : MetricsWrite(r, res)

SpecCheck == InitCheck /\ [][NextCheck]_vars

InitDisjoint ==
  /\ kv \in { [[k \in KV_KEYS |-> Absent] EXCEPT !.EMAILS = e] :
                e \in {Absent, Json(<<Str_a_b_c>>)} }
  /\ run = [r \in RunIds |-> RunIdle]
  /\ req = [q \in ReqIds |-> ReqIdle]
  /\ outbox = <<>>
  /\ now = 0
  /\ faults = 0
  /\ misses = 0 - maxRetries
  /\ det = DetIdle

NextDisjoint ==
  \/ Serve
  \/ (\A q \in ReqIds : req[q].pc \in {"idle", "done"}) /\ NextScheduled

SpecDisjoint == InitDisjoint /\ [][NextDisjoint]_vars

\* the records a scheduled invocation keeps
RunKeys == KV_KEYS \ {"EMAILS"}

\* C39: the two entry points write disjoint records. No step of a scheduled
\* invocation, its recovery included, changes the subscriber set; no step of
\* a /subscribe request changes the snapshots, the System Status, the
\* metrics buffer or the error log; and once a scrape of an invocation has
\* failed that source's snapshot is left alone, while an invocation whose two
\* scrapes failed sends no mail.
C39_DisjointRecords ==
  [][/\ \A r \in RunIds :
          run'[r] # run[r] =>
             /\ kv'.EMAILS = kv.EMAILS
             /\ run[r].blogOutcome = "failed" =>
                   kv'.LAST_BLOG_POST = kv.LAST_BLOG_POST
             /\ run[r].lediOutcome = "failed" =>
                   kv'.LAST_LEDI_VERSION = kv.LAST_LEDI_VERSION
             /\ (run[r].blogOutcome = "failed" /\ run[r].lediOutcome = "failed") =>
                   outbox' = outbox
     /\ \A q \in ReqIds :
          req'[q] # req[q] => \A k \in RunKeys : kv'[k] = kv[k]]_vars

C39_Witness ==
  /\ kv.EMAILS # Absent
  /\ Len(kv.EMAILS.json) = 1
  /\ kv.ERROR_LOG # Absent
  /\ \E q \in ReqIds : req[q].pc = "done" /\ req[q].wrote
  /\ \E r \in RunIds :
        /\ run[r].recovering
        /\ run[r].blogOutcome = "failed"
        /\ run[r].lediOutcome = "failed"
        /\ run[r].pc = "status_store"

\* ------------------------------------------------------------------ C40
\* The scheduler fires twice while one subscriber is stored: two invocations
\* of scheduled whose steps interleave freely on one KV namespace. Each
\* source has one page to show, so every update is about the same change.
InitOverlapNotify ==
  /\ kv = [[k \in KV_KEYS |-> Absent] EXCEPT !.EMAILS = Json(<<Str_a_b_c>>)]
  /\ run = [r \in RunIds |-> RunIdle]
  /\ req = [q \in ReqIds |-> ReqIdle]
  /\ outbox = <<>>
  /\ now = 0
  /\ faults = 0
  /\ misses = 0
  /\ det = DetIdle

NextOverlapNotify ==
  \/ NextOverlap
  \/ \E r \in RunIds, sent \in SomeSendResults : NotifySend(r, sent)

SpecOverlapNotify == InitOverlapNotify /\ [][NextOverlapNotify]_vars

\* the update mails sent to e that tell of the change of one source
MailsAbout(box, e, source) ==
  {i \in 1..Len(box) : box[i].to = e /\ box[i].type \in {source, "consolidated"}}

\* the invocations that have called sendNotificationEmails
Notifiers ==
  {r \in RunIds : run[r].pc \in {"notify_send", "status_store", "metrics_read",
                                 "metrics_write", "done"}}

\* C40 as stated: for one change of a source each subscriber is sent at most
\* one update mail in total, also when two scheduled runs overlap.
C40_OneMailPerChange ==
  \A source \in {"blog", "ledi"} :
     Cardinality(MailsAbout(outbox, Str_a_b_c, source)) <= 1

\* C40 amended: each scheduled run sends each subscriber at most one update
\* mail, whatever the number of sources it found changed; two runs that both
\* scrape the same new content can both notify the subscribers about it.
C40_OneMailPerRun ==
  Cardinality({i \in UpdateMails(outbox) : outbox[i].to = Str_a_b_c})
     <= Cardinality(Notifiers)

C40_Witness ==
  /\ faults = 0
  /\ \A r \in RunIds : run[r].pc = "done"
  /\ Cardinality(MailsAbout(outbox, Str_a_b_c, "blog")) = 2
  /\ kv.LAST_BLOG_POST # Absent

====
